---- MODULE Spec2Model ----
(***************************************************************************)
(* A model of github.com/state303/chromium: the page pool (pagepool.go),   *)
(* the Browser owner (browser.go), the Page handle and its operations      *)
(* (page.go) and the error classifier (error.go).                          *)
(*                                                                         *)
(* Channels are sequences bounded by their capacity, a blocking receive or *)
(* send is an action whose guard is the channel being non-empty or not     *)
(* full, and every goroutine has a program counter.                        *)
(***************************************************************************)
EXTENDS Integers, Sequences, FiniteSets, TLC

\* ------------------------------------------------------------------ bounds

\* pagePoolSize handed to NewBrowser
PoolCap == 2

\* number of caller tasks running GetPage / PutPage / Page.CleanUp
NumTasks == 3

\* how many times tasks call Page.CleanUp, over all handles
MaxCleanUps == 2

\* how many times Browser.CleanUp is invoked on the Browser
MaxBrowserCleanUps == 2

\* the longest timeout handed to ClickNavigate, in units of time
MaxTimeout == 2

\* the most events saved in the dialog history of a handle
MaxDialogs == 2

\* the most dot-separated segments of the objName handed to WaitJSObjectFor
MaxSegments == 2

\* the longest deadline handed to WaitJSObjectFor, in units of time
MaxUntil == 2

\* the most words of the message of an error handed to the classifier
MaxMsgLen == 3

\* the longest time one MustNavigate call takes, in units of time
MaxLatency == 2

\* the predicate handed to TryNavigate rejects at most this many attempts
\* before it accepts, unless it rejects them all
MaxK == 2

\* the backoff handed to TryNavigate, in units of time
MaxBackoff == 2

\* a TryNavigate call whose predicate keeps rejecting is followed up to
\* MaxK + ExtraTriggers navigation triggers
ExtraTriggers == 2

Pages == 1..PoolCap
Tasks == 1..NumTasks
Invocations == 1..MaxBrowserCleanUps

\* the handle the Page operations are called on: the first one GetPage returns
NavPage == 1

\* ------------------------------------------------------------------ state

VARIABLES
    pagePool,        \* Browser.pagePool: the buffered channel, oldest first
    held,            \* held[t]: the handle task t got from GetPage and has not put back, 0 if none
    once,            \* once[p]: Page.once has fired
    doneCalls,       \* doneCalls[p]: how many times Page.done (wg.Done) ran for p
    wg,              \* Browser.wg: the WaitGroup counter
    pageClosed,      \* pageClosed[p]: rod's Page.Close was called on p's session
    releasedBy,      \* releasedBy[p]: who ran p's done: "none", "task" or "drain"
    cleanIn,         \* cleanIn[p]: callers' Page.CleanUp calls on p past once.Do, before Close
    cleanReturns,    \* cleanReturns[p]: callers' Page.CleanUp calls on p that have returned
    drPc,            \* drPc[k]: the drain goroutine of invocation k
    drI,             \* drI[k]: its loop counter i
    drPage,          \* drPage[k]: the handle it received, 0 if none
    drainedBy,       \* drainedBy[p]: the invocation whose drain received p, 0 if none
    bcPc,            \* bcPc[k]: where invocation k of Browser.CleanUp is
    processCloses,   \* calls of Browser.MustClose
    launcherCleanups, \* calls of launcher.Cleanup
    poolSizeArg,     \* the pagePoolSize argument NewBrowser was called with
    poolCap,         \* cap(pagePool)
    putOrder,        \* the handles in the pool, in the order in which they were put
    putTornDown,     \* PutPage has been called with a handle whose session was closed
    \* one operation at a time on the handle NavPage, run by its holder
    opName,          \* the Page operation called last, "none" before the first
    opSel,           \* its selector argument
    cPc,             \* where the calling goroutine is
    wPc,             \* where the worker goroutine (go func) of the operation is
    eChan,           \* eChan: the capacity-1 error channel, its buffer
    eChanClosed,     \* eChan has been closed
    panicVal,        \* the value the worker panicked with, NoPanic if none
    opResult,        \* the error the operation returned
    tnBackoff,       \* TryNavigate: the backoff argument
    tnDelay,         \* TryNavigate: delay
    tnTriggers,      \* TryNavigate: calls of MustNavigate made by this call
    predK,           \* the predicate rejects the first predK attempts, -1: all of them
    predKind,        \* "pure": the predicate makes no engine call; "engine": it does
    sawMarker,       \* an engine call of this operation reported an abort-marker error
    faulted,         \* an engine call of this operation reported an error or panicked
    closedAt,        \* the worker's position when the session was closed under TryNavigate
    tnElapsed,       \* TryNavigate: time since the last MustNavigate was called
    tnGap,           \* TryNavigate: time between the last two MustNavigate calls
    tnPrevGap,       \* TryNavigate: time between the two MustNavigate calls before that
    navWaitPc,       \* TryNavigate: the goroutine on wait() of the current attempt
    navDone,         \* TryNavigate: done, the capacity-1 channel of the attempt, its buffer
    navDoneClosed,   \* TryNavigate: done has been closed
    \* ClickNavigate
    cnTimeout,       \* the timeout argument
    clickPc,         \* the click goroutine: "none", "click", then "ok" or "failed"
    settlePc,        \* the goroutine on waitFunc: "none", "waiting", "settled"
    clickFail,       \* clickFail: the capacity-1 channel, its buffer
    clickFailClosed, \* clickFail has been closed
    waitDone,        \* waitDone: the capacity-1 channel, its buffer
    waitDoneClosed,  \* waitDone has been closed
    cnTimer,         \* time since the timer of the current select was created
    cnElapsed,       \* time since the first select was entered
    cnFailAt,        \* cnElapsed when the click failure was sent, -1 if none
    \* WaitJSObjectFor
    wjPath,          \* objName, as the sequence of its dot-separated segments
    wjUntil,         \* the until argument
    wjDefined,       \* how many of the cumulative prefixes are defined on the page
    pPc,             \* the poller goroutine
    pI,              \* its loop index i, counted from 1
    wjBegin,         \* begin, as wjElapsed when the poller took it
    wjPauseLeft,     \* what is left of the poller's time.Sleep
    errChan,         \* errChan: the capacity-1 channel, its buffer
    errChanClosed,   \* errChan has been closed
    doneChan,        \* doneChan: the capacity-1 channel, its buffer
    doneChanClosed,  \* doneChan has been closed
    wjElapsed,       \* time since time.After(until) was called
    wjObserved,      \* the prefixes an evaluation reported defined, in order
    wjEvaluated,     \* p.Eval has been called by this call
    wjEvalErr,       \* the error p.Eval returned, Nil if none
    wjFailAt,        \* wjElapsed when p.Eval returned it, -1 if none
    wjSince,         \* time since the prefix polled now was last evaluated, up to PollPause, -1 if it was not
    \* TryInput and HasElement
    hasMissing,      \* p.Has reported no error and no element for the selector
    inputActs,       \* calls of MustSelectAllText and MustInput made by this call
    \* the dialog history of the handle
    dialogs,         \* Page.dialogs
    dialogsRet,      \* what Page.Dialogs returned last
    saveCalls,       \* the events SaveDialog was called with, in the order of the calls
    \* the error classifier applied to an error value
    errIn,           \* the error handed to replaceAbortedError
    errOut,          \* what it returned
    errDone,         \* it has been applied
    errTwice,        \* what it returned when applied to errOut
    errTwiceDone,    \* it has been applied to errOut
    errKnown,        \* what isKnownError returned for errIn
    errKnownDone     \* isKnownError has been applied

sizeVars == <<poolSizeArg, poolCap>>

histVars == <<putOrder, putTornDown>>

poolVars == <<pagePool, held, once, doneCalls, wg, pageClosed, releasedBy,
              cleanIn, cleanReturns, drPc, drI, drPage, drainedBy, bcPc,
              processCloses, launcherCleanups, sizeVars, histVars>>

settleVars == <<navWaitPc, navDone, navDoneClosed>>

navVars == <<tnElapsed, tnGap, tnPrevGap, settleVars>>

clickVars == <<cnTimeout, clickPc, settlePc, clickFail, clickFailClosed, waitDone,
               waitDoneClosed, cnTimer, cnElapsed, cnFailAt>>

waitVars == <<wjPath, wjUntil, wjDefined, pPc, pI, wjBegin, wjPauseLeft, errChan,
              errChanClosed, doneChan, doneChanClosed, wjElapsed, wjObserved,
              wjEvaluated, wjEvalErr, wjFailAt, wjSince>>

inputVars == <<hasMissing, inputActs>>

dialogVars == <<dialogs, dialogsRet, saveCalls>>

errVars == <<errIn, errOut, errDone, errTwice, errTwiceDone, errKnown, errKnownDone>>

opVars == <<opName, opSel, cPc, wPc, eChan, eChanClosed, panicVal, opResult,
            tnBackoff, tnDelay, tnTriggers, predK, predKind, sawMarker, faulted,
            closedAt>>

pageVars == <<opVars, navVars, clickVars, waitVars, errVars, inputVars, dialogVars>>

vars == <<poolVars, pageVars>>

\* ---------------------------------------------------------------- helpers

RECURSIVE SeqOfRange(_, _)
SeqOfRange(a, b) == IF a > b THEN <<>> ELSE <<a>> \o SeqOfRange(a + 1, b)

\* strings.Contains on word sequences: sub occurs in s
ContainsSeq(s, sub) ==
    \E i \in 1..(Len(s) - Len(sub) + 1) : SubSeq(s, i, i + Len(sub) - 1) = sub

InPool(p) == \E i \in 1..Len(pagePool) : pagePool[i] = p

Holders(p) == {t \in Tasks : held[t] = p}

RECURSIVE SumOver(_, _)
SumOver(f, S) ==
    IF S = {} THEN 0
    ELSE LET x == CHOOSE y \in S : TRUE IN f[x] + SumOver(f, S \ {x})

\* the number of handles returned by GetPage and not yet passed to PutPage
CheckedOut == SumOver([t \in Tasks |-> IF held[t] # 0 THEN 1 ELSE 0], Tasks)

\* ------------------------------------------------------------- NewBrowser

\* the sizes NewBrowser is called with
PoolSizes == (0 - PoolCap)..PoolCap

\* if pagePoolSize <= 0 { pagePoolSize = 1 }
NewBrowserCapAsGiven(n) == n
NewBrowserCap(n) == IF n <= 0 THEN 1 ELSE n

\* wg.Add(pagePoolSize)
WgInitOffByOne(size) == size + 1
WgInit(size) == size

\* pool := make(PagePool, pagePoolSize); for i < pagePoolSize { pool <- newPage(...) }
NewBrowserPool(size) == SeqOfRange(1, size)

\* the handles NewBrowser created
Handles == 1..poolCap

\* the Browser that NewBrowser(n) / NewBrowserWithProxy(n, proxy) returns
NewBrowser(n) ==
    /\ poolSizeArg = n
    /\ poolCap = NewBrowserCap(n)
    /\ pagePool = NewBrowserPool(NewBrowserCap(n))
    /\ putOrder = NewBrowserPool(NewBrowserCap(n))
    /\ putTornDown = FALSE
    /\ wg = WgInit(NewBrowserCap(n))
    /\ held = [t \in Tasks |-> 0]
    /\ once = [p \in Pages |-> FALSE]
    /\ doneCalls = [p \in Pages |-> 0]
    /\ pageClosed = [p \in Pages |-> FALSE]
    /\ releasedBy = [p \in Pages |-> "none"]
    /\ cleanIn = [p \in Pages |-> 0]
    /\ cleanReturns = [p \in Pages |-> 0]
    /\ drPc = [k \in Invocations |-> "none"]
    /\ drI = [k \in Invocations |-> 0]
    /\ drPage = [k \in Invocations |-> 0]
    /\ drainedBy = [p \in Pages |-> 0]
    /\ bcPc = [k \in Invocations |-> "none"]
    /\ processCloses = 0
    /\ launcherCleanups = 0

\* NewBrowser(PoolCap)
PoolInit == NewBrowser(PoolCap)

\* ---------------------------------------------------- PagePool / Browser

\* <-b.pagePool: the channel after the receive
RecvKeep(ch) == ch
Recv(ch) == Tail(ch)

\* b.pagePool <- p: the channel after the send
SendDrop(ch, p) == ch
SendFront(ch, p) == <<p>> \o ch
Send(ch, p) == Append(ch, p)

\* the handles of s without h
Without(s, h) == SelectSeq(s, LAMBDA x : x # h)

\* Browser.GetPage / PagePool.Get: blocks while the channel is empty
GetPage(t) ==
    /\ held[t] = 0
    /\ Len(pagePool) > 0
    /\ held' = [held EXCEPT ![t] = Head(pagePool)]
    /\ pagePool' = Recv(pagePool)
    /\ putOrder' = Without(putOrder, Head(pagePool))
    /\ UNCHANGED <<pageVars, sizeVars, putTornDown>>
    /\ UNCHANGED <<once, doneCalls, wg, pageClosed, releasedBy, cleanIn,
                   cleanReturns, drPc, drI, drPage, drainedBy, bcPc, processCloses,
                   launcherCleanups>>

\* Browser.PutPage / PagePool.Put of a handle the task holds: blocks while
\* the channel is full
PutPage(t, p) ==
    /\ held[t] = p
    /\ Len(pagePool) < poolCap
    /\ pagePool' = Send(pagePool, p)
    /\ held' = [held EXCEPT ![t] = 0]
    /\ putOrder' = Append(putOrder, p)
    /\ putTornDown' = (putTornDown \/ pageClosed[p])
    /\ UNCHANGED <<pageVars, sizeVars>>
    /\ UNCHANGED <<once, doneCalls, wg, pageClosed, releasedBy, cleanIn,
                   cleanReturns, drPc, drI, drPage, drainedBy, bcPc, processCloses,
                   launcherCleanups>>

\* ------------------------------------------------------------ Page.CleanUp

\* sync.Once: Do runs f only when the flag is not yet set
OnceFiresAlways(p) == TRUE
OnceFires(p) == ~once[p]

\* p.once.Do(p.done), where done is wg.Done; who is "task" or "drain"
OnceDo(p, who) ==
    IF OnceFires(p)
    THEN /\ once' = [once EXCEPT ![p] = TRUE]
         /\ doneCalls' = [doneCalls EXCEPT ![p] = @ + 1]
         /\ wg' = wg - 1
         /\ releasedBy' = [releasedBy EXCEPT ![p] = IF @ = "none" THEN who ELSE @]
    ELSE UNCHANGED <<once, doneCalls, wg, releasedBy>>

\* Page.CleanUp called on handle p by its holder or by a goroutine the
\* holder started (go p.CleanUp()), first statement
PageCleanUpOnce(p) ==
    /\ p \in Handles
    /\ SumOver(cleanIn, Pages) + SumOver(cleanReturns, Pages) < MaxCleanUps
    /\ cleanIn' = [cleanIn EXCEPT ![p] = @ + 1]
    /\ OnceDo(p, "task")
    /\ UNCHANGED <<pageVars, sizeVars, histVars>>
    /\ UNCHANGED <<pagePool, held, pageClosed, cleanReturns, drPc, drI, drPage,
                   drainedBy, bcPc, processCloses, launcherCleanups>>

\* Page.CleanUp, second statement: _ = p.Close(), and the return
PageCleanUpClose(p) ==
    /\ cleanIn[p] > 0
    /\ pageClosed' = [pageClosed EXCEPT ![p] = TRUE]
    /\ cleanIn' = [cleanIn EXCEPT ![p] = @ - 1]
    /\ cleanReturns' = [cleanReturns EXCEPT ![p] = @ + 1]
    /\ closedAt' = IF p = NavPage /\ ~pageClosed[p] /\ opName = "TryNavigate" /\ cPc = "recv"
                   THEN wPc ELSE closedAt
    /\ UNCHANGED <<opName, opSel, cPc, wPc, eChan, eChanClosed, panicVal, opResult,
                   tnBackoff, tnDelay, tnTriggers, predK, predKind, sawMarker, faulted>>
    /\ UNCHANGED <<navVars, clickVars, waitVars, errVars, inputVars, dialogVars>>
    /\ UNCHANGED <<sizeVars, histVars>>
    /\ UNCHANGED <<pagePool, held, once, doneCalls, wg, releasedBy, drPc, drI,
                   drPage, drainedBy, bcPc, processCloses, launcherCleanups>>

\* -------------------------------------------------------- PagePool.CleanUp

\* for i := 0; i < cap(p); i++
DrainLoopCondOffByOne(i) == i < poolCap - 1
DrainLoopCond(i) == i < poolCap

\* the loop test: the drain goes on to the receive, or leaves the loop
DrainTest(i) == IF DrainLoopCond(i) THEN "recv" ELSE "done"

\* page := <-p
DrainRecv(k) ==
    /\ drPc[k] = "recv"
    /\ Len(pagePool) > 0
    /\ drPage' = [drPage EXCEPT ![k] = Head(pagePool)]
    /\ drainedBy' = [drainedBy EXCEPT ![Head(pagePool)] = k]
    /\ pagePool' = Recv(pagePool)
    /\ putOrder' = Without(putOrder, Head(pagePool))
    /\ drPc' = [drPc EXCEPT ![k] = "once"]
    /\ UNCHANGED <<pageVars, sizeVars, putTornDown>>
    /\ UNCHANGED <<held, once, doneCalls, wg, pageClosed, releasedBy, cleanIn,
                   cleanReturns, drI, bcPc, processCloses, launcherCleanups>>

\* page.CleanUp(), first statement
DrainOnce(k) ==
    /\ drPc[k] = "once"
    /\ OnceDo(drPage[k], "drain")
    /\ drPc' = [drPc EXCEPT ![k] = "close"]
    /\ UNCHANGED <<pageVars, sizeVars, histVars>>
    /\ UNCHANGED <<pagePool, held, pageClosed, cleanIn, cleanReturns, drI, drPage,
                   drainedBy, bcPc, processCloses, launcherCleanups>>

\* page.CleanUp(), second statement, and i++
DrainClose(k) ==
    /\ drPc[k] = "close"
    /\ pageClosed' = [pageClosed EXCEPT ![drPage[k]] = TRUE]
    /\ drI' = [drI EXCEPT ![k] = @ + 1]
    /\ drPage' = [drPage EXCEPT ![k] = 0]
    /\ drPc' = [drPc EXCEPT ![k] = DrainTest(drI[k] + 1)]
    /\ UNCHANGED <<pageVars, sizeVars, histVars>>
    /\ UNCHANGED <<pagePool, held, once, doneCalls, wg, releasedBy, cleanIn,
                   cleanReturns, drainedBy, bcPc, processCloses, launcherCleanups>>

\* --------------------------------------------------------- Browser.CleanUp

\* go b.pagePool.CleanUp(): invocation k starts and spawns its drain
BrowserCleanUpStart(k) ==
    /\ bcPc[k] = "none"
    /\ \A j \in Invocations : j < k => bcPc[j] # "none"
    /\ bcPc' = [bcPc EXCEPT ![k] = "wait"]
    /\ drPc' = [drPc EXCEPT ![k] = DrainTest(0)]
    /\ UNCHANGED <<pageVars, sizeVars, histVars>>
    /\ UNCHANGED <<pagePool, held, once, doneCalls, wg, pageClosed, releasedBy,
                   cleanIn, cleanReturns, drI, drPage, drainedBy, processCloses,
                   launcherCleanups>>

\* b.wg.Wait() returns when the counter is zero
WaitReturnsAlways == TRUE
WaitReturns == wg = 0

BrowserCleanUpWait(k) ==
    /\ bcPc[k] = "wait"
    /\ WaitReturns
    /\ bcPc' = [bcPc EXCEPT ![k] = "close"]
    /\ UNCHANGED <<pageVars, sizeVars, histVars>>
    /\ UNCHANGED <<pagePool, held, once, doneCalls, wg, pageClosed, releasedBy,
                   cleanIn, cleanReturns, drPc, drI, drPage, drainedBy,
                   processCloses, launcherCleanups>>

\* b.MustClose()
BrowserCleanUpMustClose(k) ==
    /\ bcPc[k] = "close"
    /\ processCloses' = processCloses + 1
    /\ bcPc' = [bcPc EXCEPT ![k] = "launcher"]
    /\ UNCHANGED <<pageVars, sizeVars, histVars>>
    /\ UNCHANGED <<pagePool, held, once, doneCalls, wg, pageClosed, releasedBy,
                   cleanIn, cleanReturns, drPc, drI, drPage, drainedBy,
                   launcherCleanups>>

\* b.launcher.Cleanup(), then the return
BrowserCleanUpLauncher(k) ==
    /\ bcPc[k] = "launcher"
    /\ launcherCleanups' = launcherCleanups + 1
    /\ bcPc' = [bcPc EXCEPT ![k] = "returned"]
    /\ UNCHANGED <<pageVars, sizeVars, histVars>>
    /\ UNCHANGED <<pagePool, held, once, doneCalls, wg, pageClosed, releasedBy,
                   cleanIn, cleanReturns, drPc, drI, drPage, drainedBy,
                   processCloses>>

\* ----------------------------------------------------------------- errors

\* An error value: the sentinels errors.Is finds in its chain, and its
\* message as a sequence of words.  Nil is the nil error.
Nil == [nil |-> TRUE, ids |-> {}, msg |-> <<>>]

Sentinel(id, text) == [nil |-> FALSE, ids |-> {id}, msg |-> <<text>>]

\* error.go: the defined errors
ElementMissing == Sentinel("ElementMissing", "element missing")
InputFailed == Sentinel("InputFailed", "input failed")
WaitFailed == Sentinel("WaitFailed", "wait failed")
ClickFailed == Sentinel("ClickFailed", "click failed")
TaskTimeout == Sentinel("TaskTimeout", "task timeout")

\* context.Canceled
ContextCanceled == Sentinel("context.Canceled", "context canceled")

\* the word strings.Contains looks for
AbortMarker == "ABORTED"

\* errors of the engine (rod): one whose text carries the abort marker, and
\* one that does not
EngineAborted == [nil |-> FALSE, ids |-> {}, msg |-> <<"net::ERR", AbortMarker>>]
EngineOther == [nil |-> FALSE, ids |-> {}, msg |-> <<"engine", "failure">>]

\* strings.Contains(err.Error(), "ABORTED")
ContainsMarkerNever(err) == FALSE
ContainsMarker(err) == \E i \in 1..Len(err.msg) : err.msg[i] = AbortMarker

\* replaceAbortedError
replaceAbortedErrorAlways(err) == IF err.nil THEN Nil ELSE ContextCanceled
replaceAbortedError(err) ==
    IF err.nil THEN Nil
    ELSE IF ContainsMarker(err) THEN ContextCanceled
    ELSE err

\* wrap: fmt.Errorf("%w, %+v", replaceAbortedError(err), topic)
wrap(err, topic) ==
    LET inner == replaceAbortedError(err)
    IN [nil |-> FALSE, ids |-> inner.ids, msg |-> inner.msg \o <<",">> \o topic]

\* errors.Is(err, target) for a sentinel target
ErrorsIs(err, target) == ~err.nil /\ target.ids \subseteq err.ids /\ target.ids # {}

\* the errors isKnownError looks for
KnownSentinels ==
    {ElementMissing, InputFailed, WaitFailed, ClickFailed, TaskTimeout, ContextCanceled}

\* isKnownError
isKnownErrorDefinedOnly(err) ==
    /\ ~err.nil
    /\ \E s \in KnownSentinels \ {ContextCanceled} : ErrorsIs(err, s)
isKnownError(err) ==
    /\ ~err.nil
    /\ \/ ErrorsIs(err, ElementMissing)
       \/ ErrorsIs(err, InputFailed)
       \/ ErrorsIs(err, WaitFailed)
       \/ ErrorsIs(err, ClickFailed)
       \/ ErrorsIs(err, TaskTimeout)
       \/ ErrorsIs(err, ContextCanceled)

\* the words an error's message is made of
Words == {AbortMarker, "net::ERR", "failure"}

\* the messages of at most MaxMsgLen words
Messages == UNION {[1..n -> Words] : n \in 0..MaxMsgLen}

\* the topics handed to wrap: a selector, and one whose text happens to
\* contain the marker word
Topics == {<<"li">>, <<"#", AbortMarker>>}

\* errors.New(text) for the text of a defined error: another error value
\* with the same message
SameText(s) == [nil |-> FALSE, ids |-> {}, msg |-> s.msg]

\* the errors handed to the classifier: nil, errors of the engine, errors
\* that wrap a defined error, the defined errors themselves and wrapped with
\* a topic, and unrelated errors that read like a defined one
ErrInputs ==
    {Nil} \cup {[nil |-> FALSE, ids |-> i, msg |-> w] :
                  i \in {{}, TaskTimeout.ids}, w \in Messages}
          \cup KnownSentinels
          \cup {wrap(s, topic) : s \in KnownSentinels, topic \in Topics}
          \cup {SameText(s) : s \in KnownSentinels}

\* ----------------------------------------------------------------- engine

\* the selectors handed to the operations: an ordinary one, and one whose
\* text happens to contain the marker word
Selectors == Topics

NoPanic == [kind |-> "none", err |-> Nil]
PanicWith(e) == [kind |-> "error", err |-> e]

\* a panic value that is not an error: panic("...") in the callback, or a
\* page whose panic function was replaced
NonError == [kind |-> "value", err |-> Nil]

\* what the goroutine panics with when a Must call or the predicate meets
\* the engine's error e
PanicValues(e) == {PanicWith(e), NonError}

\* the errors an engine call can report: on a closed session the call is
\* aborted (the marker text) or finds its context cancelled; on a live one
\* it can fail for another reason
EngineErrors ==
    IF pageClosed[NavPage] THEN {EngineAborted, ContextCanceled}
    ELSE {EngineOther}

\* what an engine call that needs the live session can report: nil only
\* while the session is open
EngineOutcomes == IF pageClosed[NavPage] THEN EngineErrors ELSE EngineErrors \cup {Nil}

\* the ghost flags after an engine call reported e
Saw(e) ==
    /\ sawMarker' = (sawMarker \/ (~e.nil /\ ContainsMarker(e)))
    /\ faulted' = (faulted \/ ~e.nil)

\* --------------------------------------------------------- Page operations

\* a call of another operation than TryNavigate
NoNavigate ==
    /\ tnBackoff' = 0
    /\ tnDelay' = 0
    /\ predK' = 0
    /\ predKind' = "pure"

\* the state of ClickNavigate's race at its call, for the timeout given
StartClick(timeout) ==
    /\ cnTimeout' = timeout
    /\ clickPc' = "none"
    /\ settlePc' = "none"
    /\ clickFail' = <<>>
    /\ clickFailClosed' = FALSE
    /\ waitDone' = <<>>
    /\ waitDoneClosed' = FALSE
    /\ cnTimer' = 0
    /\ cnElapsed' = 0
    /\ cnFailAt' = -1

\* a call of another operation
NoClick == StartClick(0)

\* the state of WaitJSObjectFor's race at its call, for the path and the
\* deadline given, on a page where the first d prefixes are defined
StartWait(path, until, d) ==
    /\ wjPath' = path
    /\ wjUntil' = until
    /\ wjDefined' = d
    /\ pPc' = "none"
    /\ pI' = 0
    /\ wjBegin' = 0
    /\ wjPauseLeft' = 0
    /\ errChan' = <<>>
    /\ errChanClosed' = FALSE
    /\ doneChan' = <<>>
    /\ doneChanClosed' = FALSE
    /\ wjElapsed' = 0
    /\ wjObserved' = <<>>
    /\ wjEvaluated' = FALSE
    /\ wjEvalErr' = Nil
    /\ wjFailAt' = -1
    /\ wjSince' = -1

\* a call of another operation
NoWait == StartWait(<<>>, 0, 0)

PageInit ==
    /\ navWaitPc = "none"
    /\ navDone = <<>>
    /\ navDoneClosed = FALSE
    /\ hasMissing = FALSE
    /\ inputActs = 0
    /\ dialogs = <<>>
    /\ dialogsRet = <<>>
    /\ saveCalls = <<>>
    /\ tnElapsed = 0
    /\ tnGap = 0
    /\ tnPrevGap = 0
    /\ cnTimeout = 0
    /\ clickPc = "none"
    /\ settlePc = "none"
    /\ clickFail = <<>>
    /\ clickFailClosed = FALSE
    /\ waitDone = <<>>
    /\ waitDoneClosed = FALSE
    /\ cnTimer = 0
    /\ cnElapsed = 0
    /\ cnFailAt = -1
    /\ wjPath = <<>>
    /\ wjUntil = 0
    /\ wjDefined = 0
    /\ pPc = "none"
    /\ pI = 0
    /\ wjBegin = 0
    /\ wjPauseLeft = 0
    /\ errChan = <<>>
    /\ errChanClosed = FALSE
    /\ doneChan = <<>>
    /\ doneChanClosed = FALSE
    /\ wjElapsed = 0
    /\ wjObserved = <<>>
    /\ wjEvaluated = FALSE
    /\ wjEvalErr = Nil
    /\ wjFailAt = -1
    /\ wjSince = -1
    /\ opName = "none"
    /\ opSel = <<>>
    /\ cPc = "idle"
    /\ wPc = "none"
    /\ eChan = <<>>
    /\ eChanClosed = FALSE
    /\ panicVal = NoPanic
    /\ opResult = Nil
    /\ tnBackoff = 0
    /\ tnDelay = 0
    /\ tnTriggers = 0
    /\ predK = 0
    /\ predKind = "pure"
    /\ sawMarker = FALSE
    /\ faulted = FALSE
    /\ closedAt = "none"

\* a call of an operation by the holder of NavPage: the state every call
\* starts from
Call(name, sel, c, w) ==
    /\ cPc \in {"idle", "returned"}
    /\ \E t \in Tasks : held[t] = NavPage
    /\ opName' = name
    /\ opSel' = sel
    /\ cPc' = c
    /\ wPc' = w
    /\ eChan' = <<>>
    /\ eChanClosed' = FALSE
    /\ panicVal' = NoPanic
    /\ opResult' = Nil
    /\ tnTriggers' = 0
    /\ sawMarker' = FALSE
    /\ faulted' = FALSE
    /\ closedAt' = "none"
    /\ tnElapsed' = 0
    /\ tnGap' = 0
    /\ tnPrevGap' = 0
    /\ hasMissing' = FALSE
    /\ inputActs' = 0
    /\ navWaitPc' = "none"
    /\ navDone' = <<>>
    /\ navDoneClosed' = FALSE

\* HasElement: what it returns for the outcome of p.Has(selector)
HasElementResult(found, err, sel) ==
    IF ~err.nil THEN err
    ELSE IF ~found THEN wrap(ElementMissing, sel)
    ELSE Nil

\* the outcomes of p.Has: an error, or found / not found on a live session
HasOutcomes ==
    {[found |-> FALSE, err |-> e] : e \in EngineErrors}
      \cup (IF pageClosed[NavPage] THEN {}
            ELSE {[found |-> f, err |-> Nil] : f \in BOOLEAN})

CallHasElement(sel) ==
    /\ Call("HasElement", sel, "has", "none")
    /\ NoNavigate
    /\ NoClick /\ NoWait
    /\ UNCHANGED <<poolVars, errVars, dialogVars>>

CallWaitVisibleElement(sel) ==
    /\ Call("WaitVisibleElement", sel, "has", "none")
    /\ NoNavigate
    /\ NoClick /\ NoWait
    /\ UNCHANGED <<poolVars, errVars, dialogVars>>

\* HasElement, called directly or as the first step of WaitVisibleElement,
\* itself called directly or as the first step of ClickNavigate
StepHas ==
    /\ cPc = "has"
    /\ \E o \in HasOutcomes :
         LET r == HasElementResult(o.found, o.err, opSel)
         IN /\ Saw(o.err)
            /\ hasMissing' = (o.err.nil /\ ~o.found)
            /\ IF r.nil /\ opName \in {"WaitVisibleElement", "ClickNavigate"}
               THEN cPc' = "waitvisible" /\ UNCHANGED opResult
               ELSE cPc' = "returned" /\ opResult' = r
    /\ UNCHANGED <<opName, opSel, wPc, eChan, eChanClosed, panicVal, tnBackoff,
                   tnDelay, tnTriggers, predK, predKind, closedAt, inputActs>>
    /\ UNCHANGED <<poolVars, navVars, clickVars, waitVars, errVars, dialogVars>>

\* WaitVisibleElement: el.WaitVisible() and the return; ClickNavigate goes
\* on when it returns no error
StepWaitVisible ==
    /\ cPc = "waitvisible"
    /\ \E e \in EngineOutcomes :
         /\ Saw(e)
         /\ IF e.nil /\ opName = "ClickNavigate"
            THEN cPc' = "spawn" /\ UNCHANGED opResult
            ELSE /\ cPc' = "returned"
                 /\ opResult' = IF ~e.nil THEN wrap(WaitFailed, opSel) ELSE Nil
    /\ UNCHANGED <<opName, opSel, wPc, eChan, eChanClosed, panicVal, tnBackoff,
                   tnDelay, tnTriggers, predK, predKind, closedAt>>
    /\ UNCHANGED <<poolVars, navVars, clickVars, waitVars, errVars, inputVars, dialogVars>>

\* ---------------------------------------------------------------- TryInput

CallTryInput(sel) ==
    /\ Call("TryInput", sel, "recv", "has")
    /\ NoNavigate
    /\ NoClick /\ NoWait
    /\ UNCHANGED <<poolVars, errVars, dialogVars>>

\* the worker: element, err := p.HasElement(selector); on an error it sends
\* the error and returns
InputHas ==
    /\ opName = "TryInput" /\ wPc = "has"
    /\ \E o \in HasOutcomes :
         LET r == HasElementResult(o.found, o.err, opSel)
         IN /\ Saw(o.err)
            /\ hasMissing' = (o.err.nil /\ ~o.found)
            /\ IF r.nil
               THEN wPc' = "selectall" /\ UNCHANGED eChan
               ELSE wPc' = "defer" /\ eChan' = Append(eChan, r)
    /\ UNCHANGED <<opName, opSel, cPc, eChanClosed, panicVal, opResult, tnBackoff,
                   tnDelay, tnTriggers, predK, predKind, closedAt, inputActs>>
    /\ UNCHANGED <<poolVars, navVars, clickVars, waitVars, errVars, dialogVars>>

\* an engine call of the Must kind made by the worker: it goes on to pc next,
\* or panics with the engine's error and runs the deferred function
MustCall(next, outcomes) ==
    \E e \in outcomes :
        /\ Saw(e)
        /\ IF e.nil
           THEN wPc' = next /\ UNCHANGED panicVal
           ELSE wPc' = "defer" /\ panicVal' \in PanicValues(e)

\* element.MustSelectAllText()
InputSelectAll ==
    /\ opName = "TryInput" /\ wPc = "selectall"
    /\ MustCall("input", EngineOutcomes)
    /\ inputActs' = inputActs + 1
    /\ UNCHANGED <<opName, opSel, cPc, eChan, eChanClosed, opResult, tnBackoff,
                   tnDelay, tnTriggers, predK, predKind, closedAt, hasMissing>>
    /\ UNCHANGED <<poolVars, navVars, clickVars, waitVars, errVars, dialogVars>>

\* .MustInput(text), after which the worker function returns
InputInput ==
    /\ opName = "TryInput" /\ wPc = "input"
    /\ MustCall("defer", EngineOutcomes)
    /\ inputActs' = inputActs + 1
    /\ UNCHANGED <<opName, opSel, cPc, eChan, eChanClosed, opResult, tnBackoff,
                   tnDelay, tnTriggers, predK, predKind, closedAt, hasMissing>>
    /\ UNCHANGED <<poolVars, navVars, clickVars, waitVars, errVars, dialogVars>>

\* isError(pe)
isErrorNever(pe) == FALSE
isErrorAlways(pe) == TRUE
isError(pe) == pe.kind = "error"

\* the worker's deferred function, in TryNavigate and in TryInput:
\* if pe := recover(); isError(pe) { eChan <- replaceAbortedError(err) }; close(eChan)
WorkerDefer ==
    /\ wPc = "defer"
    /\ Len(eChan) < 1 \/ ~isError(panicVal)
    /\ eChan' = IF isError(panicVal)
                THEN Append(eChan, replaceAbortedError(panicVal.err))
                ELSE eChan
    /\ eChanClosed' = TRUE
    /\ wPc' = "exited"
    /\ UNCHANGED <<opName, opSel, cPc, panicVal, opResult, tnBackoff, tnDelay,
                   tnTriggers, predK, predKind, sawMarker, faulted, closedAt>>
    /\ UNCHANGED <<poolVars, navVars, clickVars, waitVars, errVars, inputVars, dialogVars>>

\* what the caller makes of the value received from eChan: TryInput returns
\* replaceAbortedError(<-eChan), TryNavigate returns <-eChan
Received(v) == IF opName = "TryInput" THEN replaceAbortedError(v) ELSE v

\* the caller's <-eChan: a buffered value, or nil from the closed channel
CallerRecv ==
    /\ cPc = "recv"
    /\ Len(eChan) > 0 \/ eChanClosed
    /\ opResult' = Received(IF Len(eChan) > 0 THEN Head(eChan) ELSE Nil)
    /\ eChan' = IF Len(eChan) > 0 THEN Tail(eChan) ELSE eChan
    /\ cPc' = "returned"
    /\ UNCHANGED <<opName, opSel, wPc, eChanClosed, panicVal, tnBackoff, tnDelay,
                   tnTriggers, predK, predKind, sawMarker, faulted, closedAt>>
    /\ UNCHANGED <<poolVars, navVars, clickVars, waitVars, errVars, inputVars, dialogVars>>

\* ------------------------------------------------------------- TryNavigate

\* the most navigation triggers one call is followed through
MaxTriggers == MaxK + ExtraTriggers

\* TryNavigate(url, predicate, backoff); delay := backoff
CallTryNavigate(k, kind, backoff) ==
    /\ Call("TryNavigate", <<>>, "recv", "waitnav")
    /\ predK' = k
    /\ predKind' = kind
    /\ tnBackoff' = backoff
    /\ tnDelay' = backoff
    /\ NoClick /\ NoWait
    /\ UNCHANGED <<poolVars, errVars, dialogVars>>

\* wait := p.MustWaitNavigation(); done := make(chan struct{}, 1); and the
\* goroutine started on wait
NavWaitNavigation ==
    /\ opName = "TryNavigate" /\ wPc = "waitnav"
    /\ tnTriggers < MaxTriggers
    /\ MustCall("navigate", EngineErrors \cup {Nil})
    /\ IF wPc' = "navigate"
       THEN navWaitPc' = "waiting" /\ navDone' = <<>> /\ navDoneClosed' = FALSE
       ELSE UNCHANGED settleVars
    /\ UNCHANGED <<opName, opSel, cPc, eChan, eChanClosed, opResult, tnBackoff,
                   tnDelay, tnTriggers, predK, predKind, closedAt>>
    /\ UNCHANGED <<tnElapsed, tnGap, tnPrevGap>>
    /\ UNCHANGED <<poolVars, clickVars, waitVars, errVars, inputVars, dialogVars>>

\* the goroutine of the attempt: wait() returns once the navigation that was
\* triggered has settled; done <- struct{}{}, and the deferred close(done)
NavSettled ==
    /\ opName = "TryNavigate" /\ navWaitPc = "waiting"
    /\ wPc # "navigate"
    /\ navDone' = Append(navDone, "settled")
    /\ navDoneClosed' = TRUE
    /\ navWaitPc' = "settled"
    /\ UNCHANGED <<tnElapsed, tnGap, tnPrevGap>>
    /\ UNCHANGED <<poolVars, opVars, clickVars, waitVars, errVars, inputVars, dialogVars>>

\* p.MustNavigate(url): the navigation trigger, made tnElapsed after the one
\* before; the call takes the engine the time latency
NavNavigate(latency) ==
    /\ opName = "TryNavigate" /\ wPc = "navigate"
    /\ tnTriggers' = tnTriggers + 1
    /\ tnGap' = IF tnTriggers >= 1 THEN tnElapsed ELSE tnGap
    /\ tnPrevGap' = IF tnTriggers >= 1 THEN tnGap ELSE tnPrevGap
    /\ tnElapsed' = latency
    /\ UNCHANGED settleVars
    /\ MustCall("predicate", EngineOutcomes)
    /\ UNCHANGED <<opName, opSel, cPc, eChan, eChanClosed, opResult, tnBackoff,
                   tnDelay, predK, predKind, closedAt>>
    /\ UNCHANGED <<poolVars, clickVars, waitVars, errVars, inputVars, dialogVars>>

\* the caller's predicate: it rejects the first predK attempts
PredicateAccepts == predK >= 0 /\ tnTriggers > predK

\* if !predicate(p)
RejectedNever(accepted) == FALSE
Rejected(accepted) == ~accepted

\* delay += backoff
NextDelaySame(delay, backoff) == delay
NextDelay(delay, backoff) == delay + backoff

\* predicate(p): a predicate that asks the engine panics with the engine's
\* error; on a rejection delay += backoff
NavPredicate ==
    /\ opName = "TryNavigate" /\ wPc = "predicate"
    /\ \E e \in (IF predKind = "engine" THEN EngineOutcomes ELSE {Nil}) :
         /\ Saw(e)
         /\ IF ~e.nil
            THEN wPc' = "defer" /\ panicVal' \in PanicValues(e) /\ UNCHANGED tnDelay
            ELSE IF Rejected(PredicateAccepts)
            THEN wPc' = "sleep" /\ tnDelay' = NextDelay(tnDelay, tnBackoff) /\ UNCHANGED panicVal
            ELSE wPc' = "defer" /\ UNCHANGED <<tnDelay, panicVal>>
    /\ UNCHANGED <<opName, opSel, cPc, eChan, eChanClosed, opResult, tnBackoff,
                   tnTriggers, predK, predKind, closedAt>>
    /\ UNCHANGED <<poolVars, navVars, clickVars, waitVars, errVars, inputVars, dialogVars>>

\* time.Sleep(delay); goto tryNavigate
NavSleep ==
    /\ opName = "TryNavigate" /\ wPc = "sleep"
    /\ wPc' = "waitnav"
    /\ tnElapsed' = tnElapsed + tnDelay
    /\ UNCHANGED <<tnGap, tnPrevGap, settleVars>>
    /\ UNCHANGED <<opName, opSel, cPc, eChan, eChanClosed, panicVal, opResult,
                   tnBackoff, tnDelay, tnTriggers, predK, predKind, sawMarker,
                   faulted, closedAt>>
    /\ UNCHANGED <<poolVars, clickVars, waitVars, errVars, inputVars, dialogVars>>

\* ----------------------------------------------------------- ClickNavigate

\* how long a ClickNavigate call is followed, in units of time
MaxClickTime == MaxTimeout + 1

CallClickNavigate(sel, timeout) ==
    /\ Call("ClickNavigate", sel, "has", "none")
    /\ StartClick(timeout) /\ NoWait
    /\ NoNavigate
    /\ UNCHANGED <<poolVars, errVars, dialogVars>>

\* waitFunc := p.MustWaitNavigation(), the two channels, and the two
\* goroutines started
CnSpawn ==
    /\ opName = "ClickNavigate" /\ cPc = "spawn"
    /\ cPc' = "enter"
    /\ clickPc' = "click"
    /\ settlePc' = "waiting"
    /\ UNCHANGED <<cnTimeout, clickFail, clickFailClosed, waitDone, waitDoneClosed,
                   cnTimer, cnElapsed, cnFailAt>>
    /\ UNCHANGED <<opName, opSel, wPc, eChan, eChanClosed, panicVal, opResult,
                   tnBackoff, tnDelay, tnTriggers, predK, predKind, sawMarker,
                   faulted, closedAt>>
    /\ UNCHANGED <<poolVars, navVars, waitVars, errVars, inputVars, dialogVars>>

\* what the click goroutine sends on clickFail for the outcome of elem.Click
ClickFailure(clickErr, sel) ==
    IF ~clickErr.nil THEN <<wrap(ClickFailed, sel)>> ELSE <<>>

\* the click goroutine: elem.Click, the send on a failure, close(clickFail)
ClickRuns ==
    /\ clickPc = "click"
    /\ \E e \in EngineOutcomes :
         /\ Saw(e)
         /\ Len(clickFail) + Len(ClickFailure(e, opSel)) <= 1
         /\ clickFail' = clickFail \o ClickFailure(e, opSel)
         /\ clickPc' = IF ~e.nil THEN "failed" ELSE "ok"
         /\ cnFailAt' = IF ~e.nil THEN cnElapsed ELSE cnFailAt
    /\ clickFailClosed' = TRUE
    /\ UNCHANGED <<cnTimeout, settlePc, waitDone, waitDoneClosed, cnTimer, cnElapsed>>
    /\ UNCHANGED <<opName, opSel, cPc, wPc, eChan, eChanClosed, panicVal, opResult,
                   tnBackoff, tnDelay, tnTriggers, predK, predKind, closedAt>>
    /\ UNCHANGED <<poolVars, navVars, waitVars, errVars, inputVars, dialogVars>>

\* the goroutine on waitFunc: the navigation settles (or the session ends),
\* waitFunc returns, and the deferred function sends on waitDone and closes it
SettleReturns ==
    /\ settlePc = "waiting"
    /\ Len(waitDone) < 1
    /\ waitDone' = Append(waitDone, "done")
    /\ waitDoneClosed' = TRUE
    /\ settlePc' = "settled"
    /\ UNCHANGED <<cnTimeout, clickPc, clickFail, clickFailClosed, cnTimer, cnElapsed,
                   cnFailAt>>
    /\ UNCHANGED <<opName, opSel, cPc, wPc, eChan, eChanClosed, panicVal, opResult,
                   tnBackoff, tnDelay, tnTriggers, predK, predKind, sawMarker,
                   faulted, closedAt>>
    /\ UNCHANGED <<poolVars, navVars, waitVars, errVars, inputVars, dialogVars>>

\* a receive from the channel is ready: a value is buffered, or it is closed
Ready(chan, closed) == Len(chan) > 0 \/ closed

\* the caller's return with result r
CnReturn(r) ==
    /\ cPc' = "returned"
    /\ opResult' = r

\* for { select {: the select is entered, which evaluates time.After(timeout)
\* and so starts a new timer
CnSelectEnter ==
    /\ opName = "ClickNavigate" /\ cPc \in {"enter", "loop"}
    /\ cPc' = "select"
    /\ cnTimer' = 0
    /\ UNCHANGED <<cnTimeout, clickPc, settlePc, clickFail, clickFailClosed, waitDone,
                   waitDoneClosed, cnElapsed, cnFailAt>>
    /\ UNCHANGED <<opName, opSel, wPc, eChan, eChanClosed, panicVal, opResult,
                   tnBackoff, tnDelay, tnTriggers, predK, predKind, sawMarker,
                   faulted, closedAt>>
    /\ UNCHANGED <<poolVars, navVars, waitVars, errVars, inputVars, dialogVars>>

\* case <-waitDone: return nil
CnRecvWaitDone ==
    /\ opName = "ClickNavigate" /\ cPc = "select"
    /\ Ready(waitDone, waitDoneClosed)
    /\ waitDone' = IF Len(waitDone) > 0 THEN Tail(waitDone) ELSE waitDone
    /\ CnReturn(Nil)
    /\ UNCHANGED <<cnTimeout, clickPc, settlePc, clickFail, clickFailClosed,
                   waitDoneClosed, cnTimer, cnElapsed, cnFailAt>>
    /\ UNCHANGED <<opName, opSel, wPc, eChan, eChanClosed, panicVal, tnBackoff,
                   tnDelay, tnTriggers, predK, predKind, sawMarker, faulted, closedAt>>
    /\ UNCHANGED <<poolVars, navVars, waitVars, errVars, inputVars, dialogVars>>

\* if e != nil, if err != nil: the value received is returned as the failure
FailureReportedNever(e) == FALSE
FailureReportedAlways(e) == TRUE
FailureReported(e) == ~e.nil

\* case e := <-clickFail: return e if it is not nil, else go round the loop
CnRecvClickFail ==
    /\ opName = "ClickNavigate" /\ cPc = "select"
    /\ Ready(clickFail, clickFailClosed)
    /\ clickFail' = IF Len(clickFail) > 0 THEN Tail(clickFail) ELSE clickFail
    /\ LET e == IF Len(clickFail) > 0 THEN Head(clickFail) ELSE Nil
       IN IF FailureReported(e)
          THEN CnReturn(e)
          ELSE cPc' = "loop" /\ UNCHANGED opResult
    /\ UNCHANGED <<cnTimeout, clickPc, settlePc, clickFailClosed, waitDone,
                   waitDoneClosed, cnTimer, cnElapsed, cnFailAt>>
    /\ UNCHANGED <<opName, opSel, wPc, eChan, eChanClosed, panicVal, tnBackoff,
                   tnDelay, tnTriggers, predK, predKind, sawMarker, faulted, closedAt>>
    /\ UNCHANGED <<poolVars, navVars, waitVars, errVars, inputVars, dialogVars>>

\* case <-time.After(timeout): return TaskTimeout
CnTimeout ==
    /\ opName = "ClickNavigate" /\ cPc = "select"
    /\ cnTimer >= cnTimeout
    /\ CnReturn(TaskTimeout)
    /\ UNCHANGED clickVars
    /\ UNCHANGED <<opName, opSel, wPc, eChan, eChanClosed, panicVal, tnBackoff,
                   tnDelay, tnTriggers, predK, predKind, sawMarker, faulted, closedAt>>
    /\ UNCHANGED <<poolVars, navVars, waitVars, errVars, inputVars, dialogVars>>

\* a unit of time goes by while the caller is blocked in the select with no
\* case ready, or is going round the loop; a select with a ready case does
\* not wait
CnTick ==
    /\ opName = "ClickNavigate"
    /\ cnElapsed < MaxClickTime
    /\ \/ cPc = "loop"
       \/ /\ cPc = "select"
          /\ ~Ready(waitDone, waitDoneClosed)
          /\ ~Ready(clickFail, clickFailClosed)
          /\ cnTimer < cnTimeout
    /\ cnElapsed' = cnElapsed + 1
    /\ cnTimer' = IF cPc = "select" THEN cnTimer + 1 ELSE cnTimer
    /\ UNCHANGED <<cnTimeout, clickPc, settlePc, clickFail, clickFailClosed, waitDone,
                   waitDoneClosed, cnFailAt>>
    /\ UNCHANGED <<opName, opSel, cPc, wPc, eChan, eChanClosed, panicVal, opResult,
                   tnBackoff, tnDelay, tnTriggers, predK, predKind, sawMarker,
                   faulted, closedAt>>
    /\ UNCHANGED <<poolVars, navVars, waitVars, errVars, inputVars, dialogVars>>

\* --------------------------------------------------------- WaitJSObjectFor

\* the poller's time.Sleep(time.Millisecond * 100), the unit of time
PollPause == 1

\* how long a WaitJSObjectFor call is followed, in units of time
MaxWaitTime == MaxUntil + PollPause + 1

\* strings.Split(objName, "."), for the objName of n segments
Path(n) == SeqOfRange(1, n)

\* items[i] after items[i] = items[i-1] + "." + items[i]: the cumulative prefix
RECURSIVE Prefix(_, _)
Prefix(path, i) == IF i = 0 THEN <<>> ELSE Append(Prefix(path, i - 1), path[i])

\* typeof prefix !== 'undefined' on the page
Defined(prefix) == Len(prefix) <= wjDefined

\* WaitJSObjectFor(objName, until) on a page where d prefixes are defined
CallWaitJSObjectFor(n, until, d) ==
    /\ Call("WaitJSObjectFor", <<>>, "entry", "none")
    /\ StartWait(Path(n), until, d) /\ NoClick
    /\ NoNavigate
    /\ UNCHANGED <<poolVars, errVars, dialogVars>>

\* if len(objName) == 0 { return nil } else if until == 0 { return TaskTimeout }:
\* the result returned at once, if any
EarlyReturnDeadlineFirst(path, until) ==
    IF until = 0 THEN <<TaskTimeout>> ELSE IF Len(path) = 0 THEN <<Nil>> ELSE <<>>
EarlyReturn(path, until) ==
    IF Len(path) = 0 THEN <<Nil>> ELSE IF until = 0 THEN <<TaskTimeout>> ELSE <<>>

\* the two tests, then timer := time.After(until), the two channels and the
\* poller goroutine started
WjEntry ==
    /\ opName = "WaitJSObjectFor" /\ cPc = "entry"
    /\ LET early == EarlyReturn(wjPath, wjUntil)
       IN IF early # <<>>
          THEN cPc' = "returned" /\ opResult' = early[1] /\ UNCHANGED pPc
          ELSE cPc' = "enter" /\ pPc' = "start" /\ UNCHANGED opResult
    /\ UNCHANGED <<wjPath, wjUntil, wjDefined, pI, wjBegin, wjPauseLeft, errChan,
                   errChanClosed, doneChan, doneChanClosed, wjElapsed, wjObserved,
                   wjEvaluated, wjEvalErr, wjFailAt, wjSince, sawMarker, faulted>>
    /\ UNCHANGED <<opName, opSel, wPc, eChan, eChanClosed, panicVal, tnBackoff,
                   tnDelay, tnTriggers, predK, predKind, closedAt>>
    /\ UNCHANGED <<poolVars, navVars, clickVars, errVars, inputVars, dialogVars>>

\* the page's script defines the next object of the path
PageDefines ==
    /\ opName = "WaitJSObjectFor"
    /\ wjDefined < Len(wjPath)
    /\ wjDefined' = wjDefined + 1
    /\ UNCHANGED <<wjPath, wjUntil, pPc, pI, wjBegin, wjPauseLeft, errChan,
                   errChanClosed, doneChan, doneChanClosed, wjElapsed, wjObserved,
                   wjEvaluated, wjEvalErr, wjFailAt, wjSince, sawMarker, faulted, cPc, opResult>>
    /\ UNCHANGED <<opName, opSel, wPc, eChan, eChanClosed, panicVal, tnBackoff,
                   tnDelay, tnTriggers, predK, predKind, closedAt>>
    /\ UNCHANGED <<poolVars, navVars, clickVars, errVars, inputVars, dialogVars>>

\* the poller returns: defer close(errChan), defer close(doneChan)
PollerExit(how) ==
    /\ pPc' = how
    /\ errChanClosed' = TRUE
    /\ doneChanClosed' = TRUE

\* begin := time.Now(); items := strings.Split(objName, "."); i = 0
PollerStart ==
    /\ pPc = "start"
    /\ pPc' = "check"
    /\ pI' = 1
    /\ wjBegin' = wjElapsed
    /\ UNCHANGED <<wjPath, wjUntil, wjDefined, wjPauseLeft, errChan, errChanClosed,
                   doneChan, doneChanClosed, wjElapsed, wjObserved, wjEvaluated,
                   wjEvalErr, wjFailAt, wjSince, sawMarker, faulted, cPc, opResult>>
    /\ UNCHANGED <<opName, opSel, wPc, eChan, eChanClosed, panicVal, tnBackoff,
                   tnDelay, tnTriggers, predK, predKind, closedAt>>
    /\ UNCHANGED <<poolVars, navVars, clickVars, errVars, inputVars, dialogVars>>

\* if time.Since(begin) > until { return }
PollerCheck ==
    /\ pPc = "check"
    /\ IF wjElapsed - wjBegin > wjUntil
       THEN PollerExit("deadline")
       ELSE pPc' = "eval" /\ UNCHANGED <<errChanClosed, doneChanClosed>>
    /\ UNCHANGED <<wjPath, wjUntil, wjDefined, pI, wjBegin, wjPauseLeft, errChan,
                   doneChan, wjElapsed, wjObserved, wjEvaluated, wjEvalErr, wjFailAt, wjSince,
                   sawMarker, faulted, cPc, opResult>>
    /\ UNCHANGED <<opName, opSel, wPc, eChan, eChanClosed, panicVal, tnBackoff,
                   tnDelay, tnTriggers, predK, predKind, closedAt>>
    /\ UNCHANGED <<poolVars, navVars, clickVars, errVars, inputVars, dialogVars>>

\* obj, err := p.Eval(script): on an error errChan <- err and return; on true
\* the sleep and on to the next prefix; on false round the inner loop
PollerEval ==
    /\ pPc = "eval"
    /\ wjEvaluated' = TRUE
    /\ \E err \in EngineOutcomes :
         /\ Saw(err)
         /\ IF ~err.nil
            THEN /\ Len(errChan) < 1
                 /\ errChan' = Append(errChan, err)
                 /\ PollerExit("failed")
                 /\ wjEvalErr' = err
                 /\ wjFailAt' = wjElapsed
                 /\ wjSince' = -1
                 /\ UNCHANGED <<wjObserved, wjPauseLeft>>
            ELSE /\ IF Defined(Prefix(wjPath, pI))
                    THEN /\ wjObserved' = Append(wjObserved, Prefix(wjPath, pI))
                         /\ wjPauseLeft' = PollPause
                         /\ wjSince' = -1
                         /\ pPc' = "pause"
                    ELSE /\ pPc' = "check"
                         /\ wjSince' = 0
                         /\ UNCHANGED <<wjObserved, wjPauseLeft>>
                 /\ UNCHANGED <<errChan, errChanClosed, doneChanClosed, wjEvalErr, wjFailAt>>
    /\ UNCHANGED <<wjPath, wjUntil, wjDefined, pI, wjBegin, doneChan, wjElapsed, cPc,
                   opResult>>
    /\ UNCHANGED <<opName, opSel, wPc, eChan, eChanClosed, panicVal, tnBackoff,
                   tnDelay, tnTriggers, predK, predKind, closedAt>>
    /\ UNCHANGED <<poolVars, navVars, clickVars, errVars, inputVars, dialogVars>>

\* the sleep is over; break, and the next i of the range, or the end of it
PollerWake ==
    /\ pPc = "pause"
    /\ wjPauseLeft = 0
    /\ pI' = pI + 1
    /\ pPc' = IF pI + 1 <= Len(wjPath) THEN "check" ELSE "send"
    /\ UNCHANGED <<wjPath, wjUntil, wjDefined, wjBegin, wjPauseLeft, errChan,
                   errChanClosed, doneChan, doneChanClosed, wjElapsed, wjObserved,
                   wjEvaluated, wjEvalErr, wjFailAt, wjSince, sawMarker, faulted, cPc, opResult>>
    /\ UNCHANGED <<opName, opSel, wPc, eChan, eChanClosed, panicVal, tnBackoff,
                   tnDelay, tnTriggers, predK, predKind, closedAt>>
    /\ UNCHANGED <<poolVars, navVars, clickVars, errVars, inputVars, dialogVars>>

\* doneChan <- struct{}{}, and the return
PollerDone ==
    /\ pPc = "send"
    /\ Len(doneChan) < 1
    /\ doneChan' = Append(doneChan, "done")
    /\ PollerExit("done")
    /\ UNCHANGED <<wjPath, wjUntil, wjDefined, pI, wjBegin, wjPauseLeft, errChan,
                   wjElapsed, wjObserved, wjEvaluated, wjEvalErr, wjFailAt, wjSince, sawMarker,
                   faulted, cPc, opResult>>
    /\ UNCHANGED <<opName, opSel, wPc, eChan, eChanClosed, panicVal, tnBackoff,
                   tnDelay, tnTriggers, predK, predKind, closedAt>>
    /\ UNCHANGED <<poolVars, navVars, clickVars, errVars, inputVars, dialogVars>>

\* the poller has not returned
PollerRunning == pPc \in {"start", "check", "eval", "pause", "send"}

\* for { select {: the caller reaches the select
WjSelectEnter ==
    /\ opName = "WaitJSObjectFor" /\ cPc \in {"enter", "loop"}
    /\ cPc' = "select"
    /\ UNCHANGED <<waitVars, sawMarker, faulted, opResult>>
    /\ UNCHANGED <<opName, opSel, wPc, eChan, eChanClosed, panicVal, tnBackoff,
                   tnDelay, tnTriggers, predK, predKind, closedAt>>
    /\ UNCHANGED <<poolVars, navVars, clickVars, errVars, inputVars, dialogVars>>

\* case err := <-errChan: return err if it is not nil, else round the loop
WjRecvErr ==
    /\ opName = "WaitJSObjectFor" /\ cPc = "select"
    /\ Ready(errChan, errChanClosed)
    /\ errChan' = IF Len(errChan) > 0 THEN Tail(errChan) ELSE errChan
    /\ LET err == IF Len(errChan) > 0 THEN Head(errChan) ELSE Nil
       IN IF FailureReported(err)
          THEN CnReturn(err)
          ELSE cPc' = "loop" /\ UNCHANGED opResult
    /\ UNCHANGED <<wjPath, wjUntil, wjDefined, pPc, pI, wjBegin, wjPauseLeft,
                   errChanClosed, doneChan, doneChanClosed, wjElapsed, wjObserved,
                   wjEvaluated, wjEvalErr, wjFailAt, wjSince, sawMarker, faulted>>
    /\ UNCHANGED <<opName, opSel, wPc, eChan, eChanClosed, panicVal, tnBackoff,
                   tnDelay, tnTriggers, predK, predKind, closedAt>>
    /\ UNCHANGED <<poolVars, navVars, clickVars, errVars, inputVars, dialogVars>>

\* case <-timer: return TaskTimeout
WjTimer ==
    /\ opName = "WaitJSObjectFor" /\ cPc = "select"
    /\ wjElapsed >= wjUntil
    /\ CnReturn(TaskTimeout)
    /\ UNCHANGED <<waitVars, sawMarker, faulted>>
    /\ UNCHANGED <<opName, opSel, wPc, eChan, eChanClosed, panicVal, tnBackoff,
                   tnDelay, tnTriggers, predK, predKind, closedAt>>
    /\ UNCHANGED <<poolVars, navVars, clickVars, errVars, inputVars, dialogVars>>

\* case <-doneChan: return nil
WjRecvDone ==
    /\ opName = "WaitJSObjectFor" /\ cPc = "select"
    /\ Ready(doneChan, doneChanClosed)
    /\ doneChan' = IF Len(doneChan) > 0 THEN Tail(doneChan) ELSE doneChan
    /\ CnReturn(Nil)
    /\ UNCHANGED <<wjPath, wjUntil, wjDefined, pPc, pI, wjBegin, wjPauseLeft, errChan,
                   errChanClosed, doneChanClosed, wjElapsed, wjObserved, wjEvaluated,
                   wjEvalErr, wjFailAt, wjSince, sawMarker, faulted>>
    /\ UNCHANGED <<opName, opSel, wPc, eChan, eChanClosed, panicVal, tnBackoff,
                   tnDelay, tnTriggers, predK, predKind, closedAt>>
    /\ UNCHANGED <<poolVars, navVars, clickVars, errVars, inputVars, dialogVars>>

\* a unit of time goes by: while the caller is on its way to the select or
\* blocked in it with no case ready, or after it returned while the poller
\* still runs; a select with a ready case does not wait
WjTick ==
    /\ opName = "WaitJSObjectFor"
    /\ wjElapsed < MaxWaitTime
    /\ \/ cPc \in {"enter", "loop"}
       \/ /\ cPc = "select"
          /\ ~Ready(errChan, errChanClosed)
          /\ ~Ready(doneChan, doneChanClosed)
          /\ wjElapsed < wjUntil
       \/ cPc = "returned" /\ PollerRunning
    /\ wjElapsed' = wjElapsed + 1
    /\ wjPauseLeft' = IF wjPauseLeft > 0 THEN wjPauseLeft - 1 ELSE 0
    /\ wjSince' = IF wjSince >= 0 /\ wjSince < PollPause THEN wjSince + 1 ELSE wjSince
    /\ UNCHANGED <<wjPath, wjUntil, wjDefined, pPc, pI, wjBegin, errChan,
                   errChanClosed, doneChan, doneChanClosed, wjObserved, wjEvaluated,
                   wjEvalErr, wjFailAt, sawMarker, faulted, cPc, opResult>>
    /\ UNCHANGED <<opName, opSel, wPc, eChan, eChanClosed, panicVal, tnBackoff,
                   tnDelay, tnTriggers, predK, predKind, closedAt>>
    /\ UNCHANGED <<poolVars, navVars, clickVars, errVars, inputVars, dialogVars>>

\* ------------------------------------------------------------- dialogs

\* the dialog events the page's handler saves
DialogEvents == {"alert", "confirm"}

\* append(p.dialogs, d)
AppendFront(log, d) == <<d>> \o log
AppendEvent(log, d) == Append(log, d)

\* Page.SaveDialog(d) on NavPage
SaveDialog(d) ==
    /\ Len(saveCalls) < MaxDialogs
    /\ dialogs' = AppendEvent(dialogs, d)
    /\ saveCalls' = Append(saveCalls, d)
    /\ UNCHANGED <<dialogsRet, poolVars, opVars, navVars, clickVars, waitVars, errVars,
                   inputVars>>

\* Page.Dialogs() on NavPage
Dialogs ==
    /\ dialogsRet' = dialogs
    /\ UNCHANGED <<dialogs, saveCalls, poolVars, opVars, navVars, clickVars, waitVars,
                   errVars, inputVars>>

\* ------------------------------------------------------ the classifier

\* err = replaceAbortedError(err)
ApplyReplaceAbortedError ==
    /\ ~errDone
    /\ errOut' = replaceAbortedError(errIn)
    /\ errDone' = TRUE
    /\ UNCHANGED <<errIn, errTwice, errTwiceDone, errKnown, errKnownDone>>
    /\ UNCHANGED <<poolVars, opVars, navVars, clickVars, waitVars, inputVars, dialogVars>>

\* replaceAbortedError(replaceAbortedError(err))
ApplyAgain ==
    /\ errDone /\ ~errTwiceDone
    /\ errTwice' = replaceAbortedError(errOut)
    /\ errTwiceDone' = TRUE
    /\ UNCHANGED <<errIn, errOut, errDone, errKnown, errKnownDone>>
    /\ UNCHANGED <<poolVars, opVars, navVars, clickVars, waitVars, inputVars, dialogVars>>

\* isKnownError(err)
ApplyIsKnownError ==
    /\ ~errKnownDone
    /\ errKnown' = isKnownError(errIn)
    /\ errKnownDone' = TRUE
    /\ UNCHANGED <<errIn, errOut, errDone, errTwice, errTwiceDone>>
    /\ UNCHANGED <<poolVars, opVars, navVars, clickVars, waitVars, inputVars, dialogVars>>

\* ---------------------------------------------------------- specification

\* no error has been handed to the classifier
NoErrorOut ==
    /\ errOut = Nil
    /\ errDone = FALSE
    /\ errTwice = Nil
    /\ errTwiceDone = FALSE
    /\ errKnown = FALSE
    /\ errKnownDone = FALSE

NoErrorIn == errIn = Nil /\ NoErrorOut

Init == PoolInit /\ PageInit /\ NoErrorIn

\* the callers' side: GetPage / PutPage cycles and Page.CleanUp calls
CallerNext ==
    \/ \E t \in Tasks : GetPage(t)
    \/ \E t \in Tasks, p \in Pages : PutPage(t, p)
    \/ \E p \in Pages : PageCleanUpOnce(p)
    \/ \E p \in Pages : PageCleanUpClose(p)

\* invocation k of Browser.CleanUp and the drain goroutine it spawns
ShutdownNext(k) ==
    \/ DrainRecv(k)
    \/ DrainOnce(k)
    \/ DrainClose(k)
    \/ BrowserCleanUpStart(k)
    \/ BrowserCleanUpWait(k)
    \/ BrowserCleanUpMustClose(k)
    \/ BrowserCleanUpLauncher(k)

\* callers using the pool while the Browser is cleaned up once
Next ==
    \/ CallerNext
    \/ ShutdownNext(1)

Spec == Init /\ [][Next]_vars

\* the same, on the Browser NewBrowser returns for any of the sizes
NewInit == (\E n \in PoolSizes : NewBrowser(n)) /\ PageInit /\ NoErrorIn

SpecNew == NewInit /\ [][Next]_vars

\* Browser.CleanUp invoked repeatedly, in sequence or concurrently, while
\* callers run GetPage / PutPage cycles
ShutdownAllNext ==
    \/ \E t \in Tasks : GetPage(t)
    \/ \E t \in Tasks, p \in Pages : PutPage(t, p)
    \/ \E k \in Invocations : ShutdownNext(k)

\* the operations of the Page called by the holder of NavPage, one call at
\* a time, while Page.CleanUp may close the session under them; the time the
\* engine takes is not followed here
PageNext ==
    \/ GetPage(1)
    \/ PageCleanUpOnce(NavPage)
    \/ PageCleanUpClose(NavPage)
    \/ \E sel \in Selectors : CallHasElement(sel)
    \/ \E sel \in Selectors : CallWaitVisibleElement(sel)
    \/ \E sel \in Selectors : CallTryInput(sel)
    \/ \E k \in -1..MaxK, kind \in {"pure", "engine"}, b \in 1..MaxBackoff :
          CallTryNavigate(k, kind, b)
    \/ StepHas
    \/ StepWaitVisible
    \/ InputHas
    \/ InputSelectAll
    \/ InputInput
    \/ WorkerDefer
    \/ CallerRecv
    \/ NavWaitNavigation
    \/ NavNavigate(0)
    \/ NavSettled
    \/ NavPredicate
    \/ NavSleep

SpecPage == Init /\ [][PageNext]_vars

\* TryNavigate called by the holder of NavPage on a session that stays open,
\* with the time between its navigation triggers followed
NavNext ==
    \/ GetPage(1)
    \/ \E k \in -1..MaxK, kind \in {"pure", "engine"}, b \in 1..MaxBackoff :
          CallTryNavigate(k, kind, b)
    \/ NavWaitNavigation
    \/ \E latency \in 0..MaxLatency : NavNavigate(latency)
    \/ NavSettled
    \/ NavPredicate
    \/ NavSleep
    \/ WorkerDefer
    \/ CallerRecv

SpecNav == Init /\ [][NavNext]_vars

\* the dialog history of NavPage while the handle goes through the pool, is
\* cleaned up, and is used for input, a wait and a navigation
DialogNext ==
    \/ \E d \in DialogEvents : SaveDialog(d)
    \/ Dialogs
    \/ GetPage(1)
    \/ PutPage(1, NavPage)
    \/ PageCleanUpOnce(NavPage)
    \/ PageCleanUpClose(NavPage)
    \/ CallTryInput(<<"li">>)
    \/ InputHas
    \/ InputSelectAll
    \/ InputInput
    \/ CallWaitVisibleElement(<<"li">>)
    \/ StepHas
    \/ StepWaitVisible
    \/ CallTryNavigate(0, "pure", 1)
    \/ NavWaitNavigation
    \/ NavNavigate(0)
    \/ NavPredicate
    \/ WorkerDefer
    \/ CallerRecv

SpecDialog == Init /\ [][DialogNext]_vars

\* ClickNavigate called by the holder of NavPage, while Page.CleanUp may
\* close the session under it
ClickNext ==
    \/ GetPage(1)
    \/ PageCleanUpOnce(NavPage)
    \/ PageCleanUpClose(NavPage)
    \/ \E sel \in Selectors, timeout \in 1..MaxTimeout : CallClickNavigate(sel, timeout)
    \/ StepHas
    \/ StepWaitVisible
    \/ CnSpawn
    \/ ClickRuns
    \/ SettleReturns
    \/ CnSelectEnter
    \/ CnRecvWaitDone
    \/ CnRecvClickFail
    \/ CnTimeout
    \/ CnTick

SpecClick == Init /\ [][ClickNext]_vars

\* WaitJSObjectFor called by the holder of NavPage, while the page's script
\* defines the objects and Page.CleanUp may close the session
WaitNext ==
    \/ GetPage(1)
    \/ PageCleanUpOnce(NavPage)
    \/ PageCleanUpClose(NavPage)
    \/ \E n \in 0..MaxSegments, until \in 0..MaxUntil, d \in 0..MaxSegments :
          d <= n /\ CallWaitJSObjectFor(n, until, d)
    \/ WjEntry
    \/ PageDefines
    \/ PollerStart
    \/ PollerCheck
    \/ PollerEval
    \/ PollerWake
    \/ PollerDone
    \/ WjSelectEnter
    \/ WjRecvErr
    \/ WjTimer
    \/ WjRecvDone
    \/ WjTick

SpecWait == Init /\ [][WaitNext]_vars

\* WaitJSObjectFor called on a page whose script has finished before the
\* call: what is defined when the call starts stays as it is
WaitStaticNext ==
    \/ GetPage(1)
    \/ \E n \in 0..MaxSegments, until \in 0..MaxUntil, d \in 0..MaxSegments :
          d <= n /\ CallWaitJSObjectFor(n, until, d)
    \/ WjEntry
    \/ PollerStart
    \/ PollerCheck
    \/ PollerEval
    \/ PollerWake
    \/ PollerDone
    \/ WjSelectEnter
    \/ WjRecvErr
    \/ WjTimer
    \/ WjRecvDone
    \/ WjTick

SpecWaitStatic == Init /\ [][WaitStaticNext]_vars

\* the classifier applied to an error drawn from ErrInputs
ClassifyInit ==
    /\ PoolInit
    /\ PageInit
    /\ errIn \in ErrInputs
    /\ NoErrorOut

ClassifyNext ==
    \/ ApplyReplaceAbortedError
    \/ ApplyAgain
    \/ ApplyIsKnownError

SpecClassify == ClassifyInit /\ [][ClassifyNext]_vars

\* the four operations of the Page that race goroutines over channels,
\* called one at a time by the holder of NavPage; an engine call may fail at
\* any point, and the time the engine takes to navigate is not followed
OpsNext ==
    \/ GetPage(1)
    \/ \E sel \in Selectors : CallTryInput(sel)
    \/ \E k \in -1..MaxK, kind \in {"pure", "engine"}, b \in 1..MaxBackoff :
          CallTryNavigate(k, kind, b)
    \/ \E sel \in Selectors, timeout \in 1..MaxTimeout : CallClickNavigate(sel, timeout)
    \/ \E n \in 0..MaxSegments, until \in 0..MaxUntil, d \in 0..MaxSegments :
          d <= n /\ CallWaitJSObjectFor(n, until, d)
    \/ InputHas
    \/ InputSelectAll
    \/ InputInput
    \/ NavWaitNavigation
    \/ NavNavigate(0)
    \/ NavSettled
    \/ NavPredicate
    \/ NavSleep
    \/ WorkerDefer
    \/ CallerRecv
    \/ StepHas
    \/ StepWaitVisible
    \/ CnSpawn
    \/ ClickRuns
    \/ SettleReturns
    \/ CnSelectEnter
    \/ CnRecvWaitDone
    \/ CnRecvClickFail
    \/ CnTimeout
    \/ CnTick
    \/ WjEntry
    \/ PageDefines
    \/ PollerStart
    \/ PollerCheck
    \/ PollerEval
    \/ PollerWake
    \/ PollerDone
    \/ WjSelectEnter
    \/ WjRecvErr
    \/ WjTimer
    \/ WjRecvDone
    \/ WjTick

SpecOps == Init /\ [][OpsNext]_vars

\* The drain's receive is strongly fair: a goroutine blocked on a channel is
\* queued on it and served first in, first out, so callers that keep cycling
\* cannot take every handle from it for ever.  The other steps of a started
\* goroutine are weakly fair, and a caller holding a handle puts it back.
ShutdownFairness ==
    /\ \A k \in Invocations :
          /\ SF_vars(DrainRecv(k))
          /\ WF_vars(DrainOnce(k))
          /\ WF_vars(DrainClose(k))
          /\ WF_vars(BrowserCleanUpWait(k))
          /\ WF_vars(BrowserCleanUpMustClose(k))
          /\ WF_vars(BrowserCleanUpLauncher(k))
    /\ \A t \in Tasks, p \in Pages : WF_vars(PutPage(t, p))

SpecShutdown == Init /\ [][ShutdownAllNext]_vars /\ ShutdownFairness

\* ------------------------------------------------------------------ claims

Removed(p) == drainedBy[p] # 0

\* C1: the number of handles returned by GetPage and not yet passed to
\* PutPage never exceeds the pool capacity.
C1_PoolBound == CheckedOut <= PoolCap

\* every handle is checked out at once while another caller waits for one
C1_Witness ==
    /\ CheckedOut = PoolCap
    /\ pagePool = <<>>
    /\ \E t \in Tasks : held[t] = 0

\* C2: every handle is in exactly one place (buffered in the pool, held by
\* exactly one caller, or removed by the drain), the three counts sum to the
\* capacity, and so a caller holding a handle never finds the pool full.
C2_OnePlace ==
    /\ \A p \in Pages :
          /\ Cardinality({i \in 1..Len(pagePool) : pagePool[i] = p}) <= 1
          /\ Cardinality(Holders(p)) <= 1
          /\ Cardinality({x \in {"pool", "held", "removed"} :
                 \/ x = "pool" /\ InPool(p)
                 \/ x = "held" /\ Holders(p) # {}
                 \/ x = "removed" /\ Removed(p)}) = 1
    /\ Len(pagePool) + CheckedOut + Cardinality({p \in Pages : Removed(p)}) = PoolCap
    /\ \A t \in Tasks : held[t] # 0 => Len(pagePool) < PoolCap

\* one handle is held by a caller while another has been removed by the drain
C2_Witness ==
    \E p, q \in Pages : p # q /\ Holders(p) # {} /\ Removed(q)

\* C3: whatever the number of Page.CleanUp calls on a handle, from callers or
\* from the drain, finished or still running, its done callback has run
\* exactly once as soon as one call has passed once.Do, and never twice.
C3_DoneOnce ==
    \A p \in Pages :
        /\ doneCalls[p] <= 1
        /\ (cleanIn[p] > 0 \/ cleanReturns[p] > 0 \/ pageClosed[p]) => doneCalls[p] = 1
        /\ (\E k \in Invocations : drPc[k] = "close" /\ drPage[k] = p) => doneCalls[p] = 1

\* two callers' CleanUp calls and the drain's have all reached the same handle
C3_Witness ==
    \E p \in Pages :
        /\ cleanIn[p] + cleanReturns[p] >= 2
        /\ cleanIn[p] >= 1
        /\ \E k \in Invocations : drPc[k] = "close" /\ drPage[k] = p
        /\ doneCalls[p] = 1

\* C4: every invocation of Browser.CleanUp that has started returns, given
\* that callers put back the handles they hold.
C4_CleanUpReturns ==
    \A k \in Invocations : (bcPc[k] # "none") ~> (bcPc[k] = "returned")

\* a repeated invocation, started after the first one returned, has returned
C4_Witness ==
    /\ \A k \in Invocations : bcPc[k] = "returned"
    /\ \E k \in Invocations : drPc[k] = "recv" /\ drI[k] = 0

\* C5: the browser process is closed at most once and the launcher cleanup
\* runs at most once, over all invocations of Browser.CleanUp.
C5_ClosedAtMostOnce == processCloses <= 1 /\ launcherCleanups <= 1

\* C6: a drain that has returned made exactly PoolCap receives, and every
\* handle has then had its done callback run exactly once; while it runs it
\* has received one handle per finished iteration.
C6_DrainComplete ==
    \A k \in Invocations :
        /\ drI[k] + (IF drPage[k] # 0 THEN 1 ELSE 0)
             = Cardinality({p \in Pages : drainedBy[p] = k})
        /\ drPc[k] = "done" =>
              /\ drI[k] = PoolCap
              /\ \A p \in Pages : drainedBy[p] = k /\ doneCalls[p] = 1 /\ pageClosed[p]

\* the drain has returned, and a handle it released had been checked out and
\* cleaned by its caller before
C6_Witness ==
    /\ drPc[1] = "done"
    /\ \E p \in Pages : cleanReturns[p] > 0 /\ releasedBy[p] = "task"
    /\ \E p \in Pages : releasedBy[p] = "drain"

\* C7 as stated: once the process has been closed no handle is checked out
\* and every handle has been released.
C7_ClosedAfterReturn ==
    processCloses > 0 => (CheckedOut = 0 /\ \A p \in Pages : doneCalls[p] = 1)

\* C7 amended: once the process has been closed every handle has been
\* released, and a handle that is still checked out is one that a caller's own
\* Page.CleanUp released.
C7_ClosedAfterRelease ==
    processCloses > 0 =>
        \A p \in Pages :
            /\ doneCalls[p] = 1
            /\ Holders(p) # {} => releasedBy[p] = "task"

\* the process is closed, one handle was released by the drain and another
\* one, released by its caller, is still checked out
C7_Witness ==
    /\ processCloses > 0
    /\ \E p, q \in Pages : releasedBy[p] = "drain" /\ Holders(q) # {}

\* C8 as stated: an operation during which an engine call reported an error
\* carrying the abort marker returns context.Canceled, and what it returns
\* does not carry the marker.
C8_MarkerBecomesCanceled ==
    (cPc = "returned" /\ sawMarker) =>
        (opResult = ContextCanceled /\ ~ContainsMarker(opResult))

\* C9 as stated: a TryNavigate call under which the session was closed
\* (before the first trigger, during a navigation, during the predicate or
\* during a sleep) returns context.Canceled and nothing else.
C9_CanceledWhenClosed ==
    (opName = "TryNavigate" /\ cPc = "returned"
       /\ closedAt \in {"waitnav", "navigate", "predicate", "sleep"}) =>
        opResult = ContextCanceled

\* C10: with a predicate that rejects the first predK attempts and an engine
\* that reports no fault, TryNavigate never makes more than predK + 1
\* navigation triggers, its worker ends only after exactly predK + 1, and it
\* then returns nil.
C10_KPlusOneTriggers ==
    (opName = "TryNavigate" /\ predK >= 0 /\ ~faulted) =>
        /\ tnTriggers <= predK + 1
        /\ wPc \in {"defer", "exited"} => tnTriggers = predK + 1
        /\ cPc = "returned" => (opResult = Nil /\ tnTriggers = predK + 1)

\* a call whose predicate rejected MaxK attempts has returned nil
C10_Witness ==
    /\ opName = "TryNavigate" /\ cPc = "returned"
    /\ predK = MaxK /\ MaxK >= 1
    /\ ~faulted
    /\ opResult = Nil
    /\ tnTriggers = MaxK + 1
    /\ tnDelay = (MaxK + 1) * tnBackoff

\* C11 as stated: within a TryNavigate call the i-th gap between navigation
\* triggers is at least i times the backoff, and no gap is shorter than the
\* gap before it.
C11_GapsNonDecreasing ==
    opName = "TryNavigate" =>
        /\ tnTriggers >= 2 => tnGap >= (tnTriggers - 1) * tnBackoff
        /\ tnTriggers >= 3 => tnGap >= tnPrevGap

\* C11 amended: the i-th gap is at least (i + 1) times the backoff, the sleep
\* it contains, and it is shorter than the gap before it by no more than what
\* the engine's navigation time varies by, less one backoff.
C11_GapsAtLeastSleep ==
    opName = "TryNavigate" =>
        /\ tnTriggers >= 2 => tnGap >= tnTriggers * tnBackoff
        /\ tnTriggers >= 3 => tnGap + MaxLatency >= tnPrevGap + tnBackoff

\* a slow navigation followed by a fast one: the later gap is the shorter
\* one, and still holds its whole sleep
C11_Witness ==
    /\ opName = "TryNavigate"
    /\ tnTriggers >= 3
    /\ tnGap < tnPrevGap
    /\ tnGap = tnTriggers * tnBackoff

C13_NoCap ==
    (opName = "TryNavigate" /\ predK = -1 /\ ~faulted) =>
        /\ cPc = "recv"
        /\ wPc \in {"waitnav", "navigate", "predicate", "sleep"}
        /\ tnDelay = tnBackoff * (IF wPc = "predicate" THEN tnTriggers ELSE tnTriggers + 1)

\* the call has made more triggers than any accepting predicate needs, and is
\* about to sleep for one backoff more than ever before
C13_Witness ==
    /\ opName = "TryNavigate" /\ predK = -1 /\ ~faulted
    /\ cPc = "recv" /\ wPc = "sleep"
    /\ tnTriggers = MaxTriggers /\ MaxTriggers > MaxK + 1
    /\ tnDelay = (MaxTriggers + 1) * tnBackoff

\* C14 as stated: while the navigation has not settled and the click has not
\* failed, a ClickNavigate call is never still waiting after its timeout has
\* elapsed; at the timeout its timer is due, and what it returns is
\* TaskTimeout, at the timeout.
C14_TimeoutAtT ==
    (opName = "ClickNavigate" /\ settlePc = "waiting" /\ clickPc \in {"click", "ok"}) =>
        /\ cPc \in {"select", "loop"} => cnElapsed <= cnTimeout
        /\ (cPc = "select" /\ cnElapsed = cnTimeout) => cnTimer >= cnTimeout
        /\ cPc = "returned" => (opResult = TaskTimeout /\ cnElapsed = cnTimeout)

\* C15: when the click has failed before the timeout and the navigation has
\* not settled, the caller has the failure message in front of it in the
\* select, or has returned it, ClickFailed with the selector, at the time it
\* was sent.
C15_ClickFailureReturned ==
    (opName = "ClickNavigate" /\ clickPc = "failed" /\ settlePc = "waiting"
       /\ cnFailAt < cnTimeout) =>
        /\ cPc \in {"enter", "select", "returned"}
        /\ cPc \in {"enter", "select"} =>
              (clickFail = <<wrap(ClickFailed, opSel)>> /\ cnElapsed = cnFailAt)
        /\ cPc = "returned" =>
              /\ opResult = wrap(ClickFailed, opSel)
              /\ ErrorsIs(opResult, ClickFailed)
              /\ opResult # TaskTimeout /\ ~opResult.nil
              /\ cnElapsed = cnFailAt

\* the click failed some time into the wait, before the timeout, and the call
\* returned the failure at once
C15_Witness ==
    /\ opName = "ClickNavigate" /\ cPc = "returned"
    /\ clickPc = "failed" /\ settlePc = "waiting"
    /\ cnFailAt > 0 /\ cnFailAt < cnTimeout
    /\ cnElapsed = cnFailAt
    /\ opResult = wrap(ClickFailed, opSel)

\* the cumulative prefixes of the path, in order
AllPrefixes(path) == [i \in 1..Len(path) |-> Prefix(path, i)]

\* C16 as stated: WaitJSObjectFor on a non-empty path has returned nil only if
\* evaluations reported every cumulative prefix defined, in order, and the
\* poller did not stop on the deadline or on a failed evaluation.
C16_NilOnlyAfterAllPrefixes ==
    (opName = "WaitJSObjectFor" /\ cPc = "returned" /\ opResult.nil /\ Len(wjPath) > 0) =>
        /\ wjObserved = AllPrefixes(wjPath)
        /\ pPc \notin {"deadline", "failed"}

\* C17 as stated: a WaitJSObjectFor call that has returned from the race with
\* no evaluation failed and without the poller getting through every prefix,
\* whether the poller still polls or has stopped on the deadline, returned
\* because the deadline elapsed, and what it returned is TaskTimeout, not nil.
C17_TimeoutOnDeadline ==
    (opName = "WaitJSObjectFor" /\ cPc = "returned" /\ Len(wjPath) > 0 /\ wjUntil > 0
       /\ wjEvalErr.nil /\ pPc # "done") =>
        (opResult = TaskTimeout /\ ~opResult.nil)

\* C18 as stated: when an evaluation returned an error before the deadline,
\* what WaitJSObjectFor returned is that error, classified.
C18_EvalErrorReturned ==
    (opName = "WaitJSObjectFor" /\ cPc = "returned" /\ pPc = "failed"
       /\ wjFailAt < wjUntil) =>
        (opResult = replaceAbortedError(wjEvalErr) /\ ~opResult.nil /\ opResult # TaskTimeout)

\* C19: past its two tests, a WaitJSObjectFor call with an empty path has
\* returned nil, whatever the deadline, and one with a non-empty path and a
\* zero deadline has returned TaskTimeout; neither evaluated anything nor
\* started the poller, and no time went by.
C19_EmptyPathFirst ==
    (opName = "WaitJSObjectFor" /\ cPc # "entry") =>
        /\ Len(wjPath) = 0 =>
              (cPc = "returned" /\ opResult = Nil /\ ~wjEvaluated /\ pPc = "none"
                 /\ wjElapsed = 0)
        /\ (Len(wjPath) > 0 /\ wjUntil = 0) =>
              (cPc = "returned" /\ opResult = TaskTimeout /\ ~wjEvaluated /\ pPc = "none"
                 /\ wjElapsed = 0)

\* an empty path with a zero deadline has returned nil
C19_Witness ==
    /\ opName = "WaitJSObjectFor" /\ cPc = "returned"
    /\ wjPath = <<>> /\ wjUntil = 0
    /\ opResult = Nil
    /\ ~wjEvaluated /\ pPc = "none"

\* C20: replaceAbortedError applied to an error whose message contains the
\* abort marker returns context.Canceled, whose message does not contain it.
C20_MarkerReplaced ==
    (errDone /\ ~errIn.nil /\ (\E i \in 1..Len(errIn.msg) : errIn.msg[i] = AbortMarker)) =>
        /\ errOut = ContextCanceled
        /\ ErrorsIs(errOut, ContextCanceled)
        /\ \A i \in 1..Len(errOut.msg) : errOut.msg[i] # AbortMarker

\* the engine's aborted error has been classified
C20_Witness ==
    /\ errDone
    /\ errIn = EngineAborted
    /\ errOut = ContextCanceled

\* C21: replaceAbortedError returns nil for nil, returns an error whose
\* message does not contain the abort marker as the same value, and applied
\* to its own result it returns that result.
C21_Unchanged ==
    errDone =>
        /\ errIn.nil => errOut = Nil
        /\ (~errIn.nil /\ \A i \in 1..Len(errIn.msg) : errIn.msg[i] # AbortMarker) =>
               errOut = errIn
        /\ errTwiceDone => errTwice = errOut

\* an error without the marker went through the classifier twice
C21_Witness ==
    /\ errTwiceDone
    /\ ~errIn.nil
    /\ Len(errIn.msg) > 0
    /\ \A i \in 1..Len(errIn.msg) : errIn.msg[i] # AbortMarker
    /\ errTwice = errIn

\* C22: isKnownError is false for nil, true for each defined error and for
\* context.Canceled, alone or wrapped with a topic by wrap, and false for an
\* error that has none of them in its chain.
C22_KnownKinds ==
    errKnownDone =>
        /\ errIn.nil => ~errKnown
        /\ (\E s \in KnownSentinels :
               errIn = s \/ \E topic \in Topics : errIn = wrap(s, topic)) => errKnown
        /\ (~errIn.nil /\ errIn.ids = {}) => ~errKnown

\* isKnownError has answered for context.Canceled wrapped with a topic
C22_Witness ==
    /\ errKnownDone
    /\ errKnown
    /\ \E topic \in Topics : errIn = wrap(ContextCanceled, topic)

\* C23 as stated: an operation during which a goroutine panicked, whatever
\* it panicked with, has returned an error and not nil.
C23_FaultBecomesError ==
    (cPc = "returned" /\ panicVal # NoPanic) => ~opResult.nil

\* C24 as stated: a TryInput call whose lookup found no element for the
\* selector on a live page has returned an error that is ElementMissing and
\* whose message contains the selector, and has made no input action.
C24_MissingReported ==
    (opName = "TryInput" /\ cPc = "returned" /\ hasMissing) =>
        /\ ErrorsIs(opResult, ElementMissing)
        /\ ContainsSeq(opResult.msg, opSel)
        /\ inputActs = 0

\* C25 as stated: a TryInput call whose input action on the element found
\* raised an error without the abort marker has returned an error that is
\* InputFailed, one isKnownError accepts.
C25_InputFailedReported ==
    (opName = "TryInput" /\ cPc = "returned" /\ inputActs >= 1
       /\ panicVal.kind = "error"
       /\ \A i \in 1..Len(panicVal.err.msg) : panicVal.err.msg[i] # AbortMarker) =>
        /\ ErrorsIs(opResult, InputFailed)
        /\ isKnownError(opResult)

\* C26: PutPage of a handle whose session Page.CleanUp has closed is not
\* blocked, and all it does is send the handle to the pool: the release
\* callback is not run and the outstanding counter stays as it is.
C26_PutTornDown ==
    /\ [](\A t \in Tasks :
             (held[t] # 0 /\ pageClosed[held[t]]) => Len(pagePool) < poolCap)
    /\ [][\A t \in Tasks :
             (held[t] # 0 /\ held'[t] = 0 /\ pageClosed[held[t]]) =>
                 /\ pagePool' = Append(pagePool, held[t])
                 /\ wg' = wg
                 /\ doneCalls' = doneCalls
                 /\ once' = once
                 /\ releasedBy' = releasedBy
                 /\ pageClosed' = pageClosed]_vars

\* a handle released and closed by its holder has been put back, and the
\* counter still counts that one release
C26_Witness ==
    /\ putTornDown
    /\ \E p \in Pages :
          /\ InPool(p) /\ pageClosed[p]
          /\ releasedBy[p] = "task" /\ doneCalls[p] = 1
    /\ wg = poolCap - 1

\* C27: the pool NewBrowser(n) creates has capacity n, or 1 for n <= 0, and
\* the capacity stays; it holds that many distinct handles, in the pool, with
\* a holder or drained, and before any release the counter is the capacity.
C27_Capacity ==
    /\ [](/\ poolCap = (IF poolSizeArg >= 1 THEN poolSizeArg ELSE 1)
          /\ Len(pagePool) <= poolCap
          /\ \A i, j \in 1..Len(pagePool) : i # j => pagePool[i] # pagePool[j]
          /\ Cardinality({p \in Pages : InPool(p) \/ Holders(p) # {} \/ Removed(p)})
                = poolCap
          /\ (\A p \in Pages : ~once[p]) => wg = poolCap)
    /\ [][poolCap' = poolCap]_vars

\* the only handle of a Browser asked for with a size below one is with a
\* task, and the pool is empty
C27_Witness ==
    /\ poolSizeArg <= 0
    /\ poolCap = 1
    /\ pagePool = <<>>
    /\ \E t \in Tasks : held[t] = 1
    /\ wg = 1

\* C28: the handle GetPage returns is the one that was put first among the
\* handles in the pool.
C28_Fifo ==
    [][\A t \in Tasks :
         (held[t] = 0 /\ held'[t] # 0) => held'[t] = Head(putOrder)]_vars

\* handle 1 was returned first and put back, behind the others, and handle 2
\* was returned after it
C28_Witness ==
    /\ \E t \in Tasks : held[t] = 2
    /\ Len(pagePool) >= 1
    /\ pagePool[Len(pagePool)] = 1
    /\ \A p \in Pages : ~Removed(p)

\* C29: the dialog log of the handle is the sequence of the events SaveDialog
\* was called with, in the order of the calls, whatever else was done with
\* the handle, and what Dialogs returns is that sequence.
C29_DialogLog ==
    /\ [](dialogs = saveCalls)
    /\ [][dialogsRet' # dialogsRet => dialogsRet' = saveCalls]_vars

\* two different events were saved, the handle was used, cleaned up and put
\* back, and Dialogs returned both events in the order of the calls
C29_Witness ==
    /\ Len(saveCalls) = 2
    /\ saveCalls[1] # saveCalls[2]
    /\ dialogsRet = saveCalls
    /\ pageClosed[NavPage]
    /\ InPool(NavPage)
    /\ opName = "TryInput" /\ cPc = "returned"

\* C30 as stated: whenever TryNavigate evaluates the predicate, the settle
\* wait of that attempt has returned and given its signal.
C30_PredicateAfterSettle ==
    [][(opName = "TryNavigate" /\ wPc = "predicate" /\ wPc' # "predicate") =>
          (navWaitPc = "settled" /\ navDoneClosed)]_vars

\* C31: the WaitGroup counter starts at the capacity, goes down by exactly
\* one at the first release of each handle, by a holder's Page.CleanUp or by
\* the drain, so it always equals the capacity minus the number of released
\* handles, and it never goes below zero.
C31_CounterTracksReleases ==
    /\ [](/\ wg = poolCap - Cardinality({p \in Pages : once[p]})
          /\ wg >= 0
          /\ \A p \in Pages : doneCalls[p] = (IF once[p] THEN 1 ELSE 0)
          /\ \A p \in Pages : once[p] <=> releasedBy[p] # "none")
    /\ [][/\ wg' \in {wg, wg - 1}
          /\ wg' = wg - 1 <=> \E p \in Pages : ~once[p] /\ once'[p]
          /\ \A p \in Pages : once[p] => once'[p]]_vars

\* the counter reached zero with one handle released by its holder, then put
\* back and drained, and another released by the drain
C31_Witness ==
    /\ wg = 0
    /\ poolCap = PoolCap
    /\ \E p, q \in Pages :
          /\ releasedBy[p] = "task" /\ Removed(p) /\ cleanReturns[p] > 0
          /\ releasedBy[q] = "drain"

\* C32: the poller of WaitJSObjectFor lets one poll interval go by between
\* two consecutive evaluations of a prefix that is not yet defined: it never
\* evaluates a prefix that it evaluated less than PollPause ago.
C32_PauseBetweenChecks ==
    [][(pPc = "eval" /\ pPc' # "eval") => wjSince \in {-1, PollPause}]_vars

\* C33: in ClickNavigate and in WaitJSObjectFor the nil received from the
\* failure channel once it is closed and empty is not returned: that receive
\* takes the controller round its loop with nothing reported, and every
\* return out of the select comes from the completion channel, from a
\* message that was sent on the failure channel, or from the timer.
C33_NilNotReported ==
    /\ [][(opName = "ClickNavigate" /\ cPc = "select" /\ cPc' = "loop") =>
             /\ clickFail = <<>> /\ clickFailClosed
             /\ opResult' = opResult]_vars
    /\ [][(opName = "ClickNavigate" /\ cPc = "select" /\ cPc' = "returned") =>
             \/ opResult' = Nil /\ Ready(waitDone, waitDoneClosed)
             \/ opResult' = TaskTimeout /\ cnTimer >= cnTimeout
             \/ Len(clickFail) > 0 /\ opResult' = Head(clickFail) /\ ~opResult'.nil]_vars
    /\ [][(opName = "WaitJSObjectFor" /\ cPc = "select" /\ cPc' = "loop") =>
             /\ errChan = <<>> /\ errChanClosed
             /\ opResult' = opResult]_vars
    /\ [][(opName = "WaitJSObjectFor" /\ cPc = "select" /\ cPc' = "returned") =>
             \/ opResult' = Nil /\ Ready(doneChan, doneChanClosed)
             \/ opResult' = TaskTimeout /\ wjElapsed >= wjUntil
             \/ Len(errChan) > 0 /\ opResult' = Head(errChan) /\ ~opResult'.nil]_vars

\* the click succeeded and closed its channel, the controller received the
\* nil and is going round the loop while the navigation has not settled
C33_Witness ==
    /\ opName = "ClickNavigate" /\ cPc = "loop"
    /\ clickPc = "ok" /\ clickFail = <<>> /\ clickFailClosed
    /\ settlePc = "waiting"
    /\ opResult = Nil

\* C34: in TryNavigate, TryInput, ClickNavigate and WaitJSObjectFor no
\* capacity-1 channel ever holds more than one message; a sub-task that has
\* a send or a close before it finds the channel open and with room for what
\* it sends, also after the controller returned; and a sub-task that has sent
\* on a channel has no further send on it.
C34_SendsAndClosesOnce ==
    /\ [](/\ Len(eChan) <= 1 /\ Len(navDone) <= 1
          /\ Len(clickFail) <= 1 /\ Len(waitDone) <= 1
          /\ Len(errChan) <= 1 /\ Len(doneChan) <= 1
          /\ wPc \notin {"none", "exited"} => ~eChanClosed
          /\ (wPc \notin {"none", "exited", "defer"} \/ (wPc = "defer" /\ isError(panicVal))) =>
                eChan = <<>>
          /\ navWaitPc = "waiting" => (navDone = <<>> /\ ~navDoneClosed)
          /\ clickPc = "click" =>
                /\ ~clickFailClosed
                /\ \A e \in EngineOutcomes : Len(clickFail) + Len(ClickFailure(e, opSel)) <= 1
          /\ settlePc = "waiting" => (waitDone = <<>> /\ ~waitDoneClosed)
          /\ PollerRunning =>
                (errChan = <<>> /\ ~errChanClosed /\ doneChan = <<>> /\ ~doneChanClosed))
    /\ [][/\ Len(eChan') > Len(eChan) =>
                (wPc' = "exited" \/ (wPc' = "defer" /\ ~isError(panicVal')))
          /\ Len(navDone') > Len(navDone) => navWaitPc' # "waiting"
          /\ Len(clickFail') > Len(clickFail) => clickPc' # "click"
          /\ Len(waitDone') > Len(waitDone) => settlePc' # "waiting"
          /\ (Len(errChan') > Len(errChan) \/ Len(doneChan') > Len(doneChan)) =>
                ~PollerRunning']_vars

\* the controller of ClickNavigate returned on its timer, and afterwards the
\* goroutine on waitFunc sent its message into the buffer and closed the
\* channel, after the click goroutine had closed its own
C34_Witness ==
    /\ opName = "ClickNavigate" /\ cPc = "returned" /\ opResult = TaskTimeout
    /\ settlePc = "settled" /\ waitDone = <<"done">> /\ waitDoneClosed
    /\ clickPc = "ok" /\ clickFailClosed

\* C35 as stated: a call that returned nil completed its guarded work, however
\* its worker ended: TryNavigate only after the predicate accepted the last
\* attempt made, TryInput only after the element was found and both input
\* actions ran without a panic.
C35_NilMeansCompleted ==
    (cPc = "returned" /\ opResult.nil) =>
        /\ opName = "TryNavigate" =>
              (tnTriggers >= 1 /\ PredicateAccepts /\ panicVal = NoPanic)
        /\ opName = "TryInput" =>
              (~hasMissing /\ inputActs = 2 /\ panicVal = NoPanic)

\* C36: in TryNavigate with backoff B the sleep that follows the k-th
\* rejected attempt, k >= 1, takes exactly (k + 1) * B: 2 * B after the first
\* rejection, and one B more after every further one.
C36_SleepAfterKth ==
    /\ []((opName = "TryNavigate" /\ wPc = "sleep") =>
            (tnTriggers >= 1 /\ tnDelay = (tnTriggers + 1) * tnBackoff))
    /\ [][(opName = "TryNavigate" /\ wPc = "sleep" /\ wPc' # "sleep") =>
            /\ tnElapsed' - tnElapsed = (tnTriggers + 1) * tnBackoff
            /\ tnTriggers = 1 => tnElapsed' - tnElapsed = 2 * tnBackoff
            /\ tnTriggers' = tnTriggers]_vars

\* the second rejected attempt has been slept off, for three units of the
\* largest backoff
C36_Witness ==
    /\ opName = "TryNavigate" /\ wPc = "waitnav" /\ cPc = "recv"
    /\ tnTriggers = 2
    /\ tnBackoff = MaxBackoff
    /\ tnDelay = 3 * MaxBackoff
    /\ tnElapsed >= 3 * MaxBackoff

\* C37 as stated: the drain goroutine of every invocation of Browser.CleanUp
\* that has started eventually returns, given that callers put back the
\* handles they hold: none stays blocked on its receive from the pool.
C37_DrainsTerminate ==
    \A k \in Invocations : (bcPc[k] # "none") ~> (drPc[k] = "done")

\* C38 as stated: a WaitJSObjectFor call for a non-empty path all of whose
\* cumulative prefixes were defined when it started, with a deadline greater
\* than zero and no failed evaluation, has returned nil and not TaskTimeout,
\* however short the deadline is against the poll intervals of the path.
\* Calls whose poller was kept from evaluating are left aside: the statement
\* is checked for the calls whose poller has seen every prefix defined.
C38_NilWhenAlreadyDefined ==
    (opName = "WaitJSObjectFor" /\ cPc = "returned"
       /\ Len(wjPath) > 0 /\ wjDefined = Len(wjPath)
       /\ wjUntil > 0 /\ wjEvalErr.nil
       /\ wjObserved = AllPrefixes(wjPath)) =>
        (opResult = Nil /\ opResult # TaskTimeout)

====
